---- MODULE Spec2Model ----
(***************************************************************************)
(* Multi-objective route/vehicle optimisation engine (routing_engine.py)   *)
(* with the cost estimator it calls (cost_model.py), the emission          *)
(* estimator (sustainability_model.py) and the route feature engineering   *)
(* that produces its route table (preprocessing.py).                       *)
(*                                                                         *)
(* The Python code computes on floats; the model computes the same         *)
(* expressions exactly, on integers in fixed units:                        *)
(*   Distance_KM                 km                                        *)
(*   Traffic_Delay_Minutes       minutes                                   *)
(*   Capacity_KG, order weight   kg                                        *)
(*   Fuel_Efficiency_KM_per_L    tenths of km/l                            *)
(*   CO2_Emissions_Kg_per_KM     thousandths of kg/km                      *)
(*   Vehicle_Quality_Score       thousandths                               *)
(*   weather multipliers         hundredths                                *)
(*   Total_Time_Hours/Time_Score 1/6000 hour                               *)
(*   money (Cost_Score, ...)     paise (1/100 INR)                         *)
(*   Emissions_Score             1/100 kg                                  *)
(*   normalised scores           exact fractions [num, den]                *)
(*   Composite_Score             exact fraction of two big naturals        *)
(* round(x, 2) is round-half-to-even on the exact value.                   *)
(***************************************************************************)
EXTENDS Integers, Sequences, FiniteSets, TLC

VARIABLES
    routes_df,      \* RoutingEngine.routes_df   (sequence of route rows)
    vehicles_df,    \* RoutingEngine.vehicles_df (sequence of vehicle rows)
    pc,             \* position of the caller: "idle" | "returned"
    request,        \* arguments of the optimize_route call in flight
    frame,          \* locals of that call (feasible sets, scored combinations)
    result,         \* the dictionary optimize_route returned
    self_fuel_price, \* self.fuel_price of one shared CostModel (paise per litre)
    cost_threads,   \* per thread: its position in, and the locals of, its CostModel call
    calls,          \* per thread: its position in, and the locals of, its optimize_route call
    estimator       \* the last call of an estimator function: name, arguments, outcome

vars == <<routes_df, vehicles_df, pc, request, frame, result, self_fuel_price, cost_threads, calls, estimator>>

-----------------------------------------------------------------------------
(* Bounds of the model *)

NumRoutes == 4       \* rows of the raw route file the route table draws from
NumVehicles == 4     \* rows of the fleet file the vehicle table draws from
MaxTopN == 2         \* largest show_top_n requested

None == [none |-> TRUE]

Min(a, b) == IF a <= b THEN a ELSE b
Max(a, b) == IF a >= b THEN a ELSE b
Abs(a) == IF a < 0 THEN -a ELSE a

\* a table built row by row, as a sequence value
Rows(s) == SelectSeq(s, LAMBDA x : TRUE)

-----------------------------------------------------------------------------
(* str.lower() on the place names that occur *)

Lower(s) ==
    CASE s = "Mumbai" -> "mumbai"
      [] s = "MUMBAI" -> "mumbai"
      [] s = "Delhi"  -> "delhi"
      [] s = "DELHI"  -> "delhi"
      [] s = "Pune"   -> "pune"
      [] s = "Goa"    -> "goa"
      [] OTHER        -> s

-----------------------------------------------------------------------------
(* round(x, 2): x = i + n/den with n >= 0, den > 0, in units of the result *)

RoundHalfEven(i, n, den) ==
    LET b == i + (n \div den)
        r == n % den
    IN  IF 2 * r > den THEN b + 1
        ELSE IF 2 * r = den THEN (IF b % 2 = 0 THEN b ELSE b + 1)
        ELSE b

-----------------------------------------------------------------------------
(* preprocessing.py: route feature engineering *)

WEATHER_TIME_MULTIPLIER(weather) ==
    CASE weather = "None"       -> 100
      [] weather = "Light_Rain" -> 115
      [] weather = "Heavy_Rain" -> 135
      [] weather = "Fog"        -> 125
      [] OTHER                  -> 100

\* one row of DataPreprocessor._process_routes
process_route(raw) ==
    LET wm == WEATHER_TIME_MULTIPLIER(raw.Weather_Impact)
    IN  [Order_ID              |-> raw.Order_ID,
         Origin                |-> raw.Route[1],
         Destination           |-> raw.Route[2],
         Distance_KM           |-> raw.Distance_KM,
         Toll_Charges_INR      |-> raw.Toll_Charges_INR,
         Traffic_Delay_Minutes |-> raw.Traffic_Delay_Minutes,
         Weather_Impact        |-> raw.Weather_Impact,
         Weather_Multiplier    |-> wm,
         Total_Time_Hours      |-> (raw.Distance_KM + raw.Traffic_Delay_Minutes) * wm]

\* rows of routes_distance.csv the route table is drawn from
RawRoutes ==
    << [Order_ID |-> "ORD1", Route |-> <<"Mumbai", "Delhi">>, Distance_KM |-> 1000,
        Toll_Charges_INR |-> 400, Traffic_Delay_Minutes |-> 200, Weather_Impact |-> "None"],
       [Order_ID |-> "ORD2", Route |-> <<"Mumbai", "Delhi">>, Distance_KM |-> 1000,
        Toll_Charges_INR |-> 0, Traffic_Delay_Minutes |-> 0, Weather_Impact |-> "Fog"],
       [Order_ID |-> "ORD3", Route |-> <<"mumbai", "DELHI">>, Distance_KM |-> 900,
        Toll_Charges_INR |-> 250, Traffic_Delay_Minutes |-> 150, Weather_Impact |-> "Heavy_Rain"],
       [Order_ID |-> "ORD4", Route |-> <<"Pune", "Delhi">>, Distance_KM |-> 1400,
        Toll_Charges_INR |-> 0, Traffic_Delay_Minutes |-> 45, Weather_Impact |-> "Light_Rain"],
       [Order_ID |-> "ORD5", Route |-> <<"Mumbai", "Goa">>, Distance_KM |-> 590,
        Toll_Charges_INR |-> 120, Traffic_Delay_Minutes |-> 30, Weather_Impact |-> "None"] >>

\* rows of vehicle_fleet.csv (with the quality score preprocessing adds)
FleetRows ==
    << [Vehicle_ID |-> "VEH1", Vehicle_Type |-> "Small_Van", Capacity_KG |-> 1000,
        Fuel_Efficiency_KM_per_L |-> 120, CO2_Emissions_Kg_per_KM |-> 250,
        Current_Location |-> "Delhi", Status |-> "Available", Vehicle_Quality_Score |-> 800],
       [Vehicle_ID |-> "VEH2", Vehicle_Type |-> "Medium_Truck", Capacity_KG |-> 3000,
        Fuel_Efficiency_KM_per_L |-> 80, CO2_Emissions_Kg_per_KM |-> 400,
        Current_Location |-> "mumbai", Status |-> "In_Transit", Vehicle_Quality_Score |-> 450],
       [Vehicle_ID |-> "VEH3", Vehicle_Type |-> "Large_Truck", Capacity_KG |-> 10000,
        Fuel_Efficiency_KM_per_L |-> 55, CO2_Emissions_Kg_per_KM |-> 650,
        Current_Location |-> "Mumbai", Status |-> "Maintenance", Vehicle_Quality_Score |-> 300],
       [Vehicle_ID |-> "VEH4", Vehicle_Type |-> "Refrigerated", Capacity_KG |-> 5000,
        Fuel_Efficiency_KM_per_L |-> 150, CO2_Emissions_Kg_per_KM |-> 249,
        Current_Location |-> "Pune", Status |-> "Available", Vehicle_Quality_Score |-> 800],
       [Vehicle_ID |-> "VEH5", Vehicle_Type |-> "Cargo_Drone", Capacity_KG |-> 2000,
        Fuel_Efficiency_KM_per_L |-> 95, CO2_Emissions_Kg_per_KM |-> 251,
        Current_Location |-> "Mumbai", Status |-> "Available", Vehicle_Quality_Score |-> 620] >>

RECURSIVE SubTable(_, _, _)
\* the rows of pool whose index is in S, in file order, from row i on
SubTable(pool, S, i) ==
    IF i > Len(pool) THEN <<>>
    ELSE (IF i \in S THEN <<pool[i]>> ELSE <<>>) \o SubTable(pool, S, i + 1)

-----------------------------------------------------------------------------
(* cost_model.py *)

FUEL_PRICE_PER_LITER == 10200          \* paise per litre
BASE_INSURANCE_PER_TRIP == 5000        \* paise
BASE_PACKAGING_COST == 3000            \* paise
PLATFORM_FEE_PERCENTAGE == 3
OVERHEAD_PERCENTAGE == 5

\* LABOR_COST_PER_HOUR.get(vehicle_type, 250.0), INR per hour
LABOR_COST_PER_HOUR(vehicle_type) ==
    CASE vehicle_type = "Express_Bike" -> 150
      [] vehicle_type = "Small_Van"    -> 200
      [] vehicle_type = "Medium_Truck" -> 250
      [] vehicle_type = "Large_Truck"  -> 300
      [] vehicle_type = "Refrigerated" -> 350
      [] OTHER                         -> 250

\* MAINTENANCE_COST_PER_KM.get(vehicle_type, 5.0), tenths of INR per km
MAINTENANCE_COST_PER_KM(vehicle_type) ==
    CASE vehicle_type = "Express_Bike" -> 20
      [] vehicle_type = "Small_Van"    -> 35
      [] vehicle_type = "Medium_Truck" -> 50
      [] vehicle_type = "Large_Truck"  -> 70
      [] vehicle_type = "Refrigerated" -> 80
      [] OTHER                         -> 50

\* WEATHER_COST_MULTIPLIER.get(weather_impact, 1.0), hundredths
WEATHER_COST_MULTIPLIER(weather_impact) ==
    CASE weather_impact = "None"       -> 100
      [] weather_impact = "Light_Rain" -> 110
      [] weather_impact = "Heavy_Rain" -> 125
      [] weather_impact = "Fog"        -> 115
      [] OTHER                         -> 100

\* CostModel.get_cost_breakdown; fuel_price is self.fuel_price.
\* Every amount is held exactly as i + n/den paise until it is rounded.
get_cost_breakdown(fuel_price, distance_km, vehicle_type, fuel_efficiency, traffic_delay_min, weather_impact, order_weight_kg, toll_charges) ==
    LET den      == 60 * fuel_efficiency
        \* 1. fuel: distance / efficiency * price
        fuelX    == 10 * distance_km * fuel_price
        fuel_i   == fuelX \div fuel_efficiency
        fuel_n   == (fuelX % fuel_efficiency) * 60
        \* 2. labour: (distance/60 + delay/60) * hourly rate * weather multiplier
        laborX   == (distance_km + traffic_delay_min)
                        * LABOR_COST_PER_HOUR(vehicle_type)
                        * WEATHER_COST_MULTIPLIER(weather_impact)
        labor_i  == laborX \div 60
        labor_n  == (laborX % 60) * fuel_efficiency
        \* 3. maintenance
        maintenance_cost == distance_km * MAINTENANCE_COST_PER_KM(vehicle_type) * 10
        \* 4. tolls: provided, or 0.80 INR per km
        toll_cost == IF toll_charges > 0 THEN toll_charges * 100 ELSE distance_km * 80
        \* 5. insurance, 6. packaging (0.01 INR per kg)
        insurance_cost == BASE_INSURANCE_PER_TRIP
        packaging_cost == BASE_PACKAGING_COST + order_weight_kg
        \* subtotal
        sub_raw_n == fuel_n + labor_n
        sub_i    == fuel_i + labor_i + maintenance_cost + toll_cost
                        + insurance_cost + packaging_cost + (sub_raw_n \div den)
        sub_n    == sub_raw_n % den
        \* x percent of the subtotal, as i + n/(100*den)
        PctI(p)  == (p * sub_i) \div 100
        PctN(p)  == ((p * sub_i) % 100) * den + p * sub_n
        totalP   == 100 + PLATFORM_FEE_PERCENTAGE + OVERHEAD_PERCENTAGE
    IN  [fuel_cost        |-> RoundHalfEven(fuel_i, fuel_n, den),
         labor_cost       |-> RoundHalfEven(labor_i, labor_n, den),
         maintenance_cost |-> maintenance_cost,
         toll_charges     |-> toll_cost,
         insurance_cost   |-> insurance_cost,
         packaging_cost   |-> packaging_cost,
         platform_fee     |-> RoundHalfEven(PctI(PLATFORM_FEE_PERCENTAGE),
                                            PctN(PLATFORM_FEE_PERCENTAGE), 100 * den),
         overhead         |-> RoundHalfEven(PctI(OVERHEAD_PERCENTAGE),
                                            PctN(OVERHEAD_PERCENTAGE), 100 * den),
         subtotal         |-> RoundHalfEven(sub_i, sub_n, den),
         total_cost       |-> RoundHalfEven(PctI(totalP), PctN(totalP), 100 * den)]

\* CostModel.estimate_delivery_cost
estimate_delivery_cost(fuel_price, distance_km, vehicle_type, fuel_efficiency, traffic_delay_min, weather_impact, order_weight_kg, toll_charges) ==
    get_cost_breakdown(fuel_price, distance_km, vehicle_type, fuel_efficiency,
                       traffic_delay_min, weather_impact, order_weight_kg,
                       toll_charges).total_cost

-----------------------------------------------------------------------------
(* Exact arithmetic on naturals beyond the machine word: six little-endian  *)
(* limbs in base 10^4.  Used only for the numerators and the denominator of *)
(* composite scores and for the tolerance test.                             *)

BigBase == 100 * 100
BigOf(n) ==
    <<n % BigBase, (n \div BigBase) % BigBase, n \div (BigBase * BigBase), 0, 0, 0>>

BigZero == BigOf(0)

RECURSIVE BigCmpFrom(_, _, _)
BigCmpFrom(a, b, k) ==
    IF k = 0 THEN 0
    ELSE IF a[k] > b[k] THEN 1
    ELSE IF a[k] < b[k] THEN -1
    ELSE BigCmpFrom(a, b, k - 1)

\* -1, 0, 1 as a < b, a = b, a > b
BigCmp(a, b) == BigCmpFrom(a, b, 6)

\* a + b, limb by limb with the carry
BigAdd(a, b) ==
    LET s1 == a[1] + b[1]
        s2 == a[2] + b[2] + (s1 \div BigBase)
        s3 == a[3] + b[3] + (s2 \div BigBase)
        s4 == a[4] + b[4] + (s3 \div BigBase)
        s5 == a[5] + b[5] + (s4 \div BigBase)
        s6 == a[6] + b[6] + (s5 \div BigBase)
    IN  <<s1 % BigBase, s2 % BigBase, s3 % BigBase,
          s4 % BigBase, s5 % BigBase, s6 % BigBase>>

\* a - b for a >= b, limb by limb with the borrow (\div and % floor, so a
\* negative limb difference gives quotient -1 and a remainder in 0..BigBase-1)
BigSub(a, b) ==
    LET s1 == a[1] - b[1]
        s2 == a[2] - b[2] + (s1 \div BigBase)
        s3 == a[3] - b[3] + (s2 \div BigBase)
        s4 == a[4] - b[4] + (s3 \div BigBase)
        s5 == a[5] - b[5] + (s4 \div BigBase)
        s6 == a[6] - b[6] + (s5 \div BigBase)
    IN  <<s1 % BigBase, s2 % BigBase, s3 % BigBase,
          s4 % BigBase, s5 % BigBase, s6 % BigBase>>

\* a * b (the low six limbs), schoolbook: limb k is the k-th convolution sum
\* plus the carry of limb k - 1
BigMul(a, b) ==
    LET s1 == a[1] * b[1]
        s2 == a[1] * b[2] + a[2] * b[1] + (s1 \div BigBase)
        s3 == a[1] * b[3] + a[2] * b[2] + a[3] * b[1] + (s2 \div BigBase)
        s4 == a[1] * b[4] + a[2] * b[3] + a[3] * b[2] + a[4] * b[1] + (s3 \div BigBase)
        s5 == a[1] * b[5] + a[2] * b[4] + a[3] * b[3] + a[4] * b[2] + a[5] * b[1]
                  + (s4 \div BigBase)
        s6 == a[1] * b[6] + a[2] * b[5] + a[3] * b[4] + a[4] * b[3] + a[5] * b[2]
                  + a[6] * b[1] + (s5 \div BigBase)
    IN  <<s1 % BigBase, s2 % BigBase, s3 % BigBase,
          s4 % BigBase, s5 % BigBase, s6 % BigBase>>

BigAbsDiff(a, b) == IF BigCmp(a, b) >= 0 THEN BigSub(a, b) ELSE BigSub(b, a)
BigMax(a, b) == IF BigCmp(a, b) >= 0 THEN a ELSE b

-----------------------------------------------------------------------------
(* routing_engine.py: feasibility filter *)

\* a route filter that matches on the origin alone
filter_routes_by_origin(routes, origin, destination) ==
    SelectSeq(routes, LAMBDA r : Lower(r.Origin) = Lower(origin))

\* RoutingEngine._filter_feasible_routes
filter_feasible_routes(routes, origin, destination) ==
    SelectSeq(routes, LAMBDA r : /\ Lower(r.Origin) = Lower(origin)
                                 /\ Lower(r.Destination) = Lower(destination))

\* row a sorts strictly before row b under
\* sort_values(['Location_Match', 'Vehicle_Quality_Score'], ascending=[False, False])
VehicleBefore(a, b) ==
    \/ a.Location_Match > b.Location_Match
    \/ /\ a.Location_Match = b.Location_Match
       /\ a.Vehicle_Quality_Score > b.Vehicle_Quality_Score

RECURSIVE InsertVehicle(_, _)
InsertVehicle(sorted, x) ==
    IF sorted = <<>> THEN <<x>>
    ELSE IF VehicleBefore(x, Head(sorted)) THEN <<x>> \o sorted
    ELSE <<Head(sorted)>> \o InsertVehicle(Tail(sorted), x)

RECURSIVE SortVehicles(_)
\* the stable sort of sort_values: equal keys keep their table order
SortVehicles(s) ==
    IF s = <<>> THEN <<>>
    ELSE InsertVehicle(SortVehicles(SubSeq(s, 1, Len(s) - 1)), s[Len(s)])

\* a status filter that lets vehicles in Maintenance through
StatusFilterLetsMaintenance(v) == v.Status \in {"Available", "In_Transit", "Maintenance"}

\* a capacity filter that accepts every vehicle
CapacityFilterAcceptsAll(v, order_weight_kg) == TRUE

\* vehicles['Capacity_KG'] >= order_weight_kg
CapacityFilter(v, order_weight_kg) == v.Capacity_KG >= order_weight_kg

\* vehicles['Status'].isin(['Available', 'In_Transit'])
StatusFilter(v) == v.Status \in {"Available", "In_Transit"}

\* RoutingEngine._filter_feasible_vehicles
filter_feasible_vehicles(vehicles, origin, order_weight_kg) ==
    LET by_capacity == SelectSeq(vehicles, LAMBDA v : CapacityFilter(v, order_weight_kg))
        by_status   == SelectSeq(by_capacity, StatusFilter)
        located     == Rows([i \in 1 .. Len(by_status) |->
                          by_status[i] @@
                          [Location_Match |->
                             IF Lower(by_status[i].Current_Location) = Lower(origin)
                             THEN 1 ELSE 0]])
    IN  SortVehicles(located)

-----------------------------------------------------------------------------
(* routing_engine.py: combination scorer *)

\* a join that pairs the rows by position instead of crossing them
generate_combinations_by_position(routes, vehicles) ==
    Rows([k \in 1 .. Min(Len(routes), Len(vehicles)) |-> routes[k] @@ vehicles[k]])

\* RoutingEngine._generate_combinations: the cross join, route-major
generate_combinations(routes, vehicles) ==
    Rows([k \in 1 .. (Len(routes) * Len(vehicles)) |->
            routes[((k - 1) \div Len(vehicles)) + 1] @@
            vehicles[((k - 1) % Len(vehicles)) + 1]])

RECURSIVE ColMin(_, _, _)
\* df[col].min() over rows i..Len(df)
ColMin(df, col, i) ==
    IF i = Len(df) THEN df[i][col] ELSE Min(df[i][col], ColMin(df, col, i + 1))

RECURSIVE ColMax(_, _, _)
ColMax(df, col, i) ==
    IF i = Len(df) THEN df[i][col] ELSE Max(df[i][col], ColMax(df, col, i + 1))

\* a normalisation that maps a column without spread to 0 instead of 0.5
NormalizeFlatToZero(value, min_val, max_val) ==
    IF max_val > min_val
    THEN [num |-> value - min_val, den |-> max_val - min_val]
    ELSE [num |-> 0, den |-> 1]

\* (df[col] - min) / (max - min), or 0.5 when the column has no spread
Normalize(value, min_val, max_val) ==
    IF max_val > min_val
    THEN [num |-> value - min_val, den |-> max_val - min_val]
    ELSE [num |-> 1, den |-> 2]

\* composite weights without the extra point on emissions
EqualThirdsWeights == <<33, 33, 33>>

\* weights of the composite score, in hundredths (time, cost, emissions)
CompositeWeights == <<33, 33, 34>>

\* the common denominator 100 * td * cd * ed of the composite scores of one
\* call, and what one unit of each normalised numerator is worth over it
CompositeScale(td, cd, ed) ==
    LET bt == BigOf(td)
        bc == BigOf(cd)
        be == BigOf(ed)
        ce == BigMul(bc, be)
    IN  [time      |-> ce,
         cost      |-> BigMul(bt, be),
         emissions |-> BigMul(bt, bc),
         den       |-> BigMul(BigOf(100), BigMul(bt, ce))]

\* Time*0.33 + Cost*0.33 + Emissions*0.34 of three normalised scores
Composite(t, c, e, scale) ==
    [num |-> BigAdd(BigAdd(
                BigMul(BigOf(CompositeWeights[1] * t.num), scale.time),
                BigMul(BigOf(CompositeWeights[2] * c.num), scale.cost)),
                BigMul(BigOf(CompositeWeights[3] * e.num), scale.emissions)),
     den |-> scale.den]

\* a Time_Score that weights the time by the priority
TimeScoreWeightedByPriority(row, priority) ==
    IF priority = "Express" THEN 2 * row.Total_Time_Hours
    ELSE IF priority = "Economy" THEN row.Total_Time_Hours \div 2
    ELSE row.Total_Time_Hours

\* the Time_Score of a row: the actual time, not weighted by priority
TimeScore(row, priority) == row.Total_Time_Hours

\* the Cost_Score of a row: a fresh CostModel, no toll passed
CostScore(row, order_weight_kg) ==
    estimate_delivery_cost(FUEL_PRICE_PER_LITER, row.Distance_KM, row.Vehicle_Type,
                           row.Fuel_Efficiency_KM_per_L, row.Traffic_Delay_Minutes,
                           row.Weather_Impact, order_weight_kg, 0)

\* the Emissions_Score of a row: (Distance_KM * CO2_Emissions_Kg_per_KM).round(2)
EmissionsScore(row) ==
    RoundHalfEven(0, row.Distance_KM * row.CO2_Emissions_Kg_per_KM, 10)

\* _score_combinations, first part: the three raw score columns
raw_scores(combinations, priority, order_weight_kg) ==
    Rows([i \in 1 .. Len(combinations) |->
            combinations[i] @@
            [Time_Score      |-> TimeScore(combinations[i], priority),
             Cost_Score      |-> CostScore(combinations[i], order_weight_kg),
             Emissions_Score |-> EmissionsScore(combinations[i])]])

\* _score_combinations, the loop over the score columns: min-max normalisation
normalize_scores(df) ==
    LET tmin == ColMin(df, "Time_Score", 1)
        tmax == ColMax(df, "Time_Score", 1)
        cmin == ColMin(df, "Cost_Score", 1)
        cmax == ColMax(df, "Cost_Score", 1)
        emin == ColMin(df, "Emissions_Score", 1)
        emax == ColMax(df, "Emissions_Score", 1)
    IN  Rows([i \in 1 .. Len(df) |->
            df[i] @@
            [Time_Score_Normalized      |-> Normalize(df[i].Time_Score, tmin, tmax),
             Cost_Score_Normalized      |-> Normalize(df[i].Cost_Score, cmin, cmax),
             Emissions_Score_Normalized |->
                 Normalize(df[i].Emissions_Score, emin, emax)]])

\* _score_combinations, last part: the composite score column
composite_scores(df) ==
    LET scale == CompositeScale(df[1].Time_Score_Normalized.den,
                                df[1].Cost_Score_Normalized.den,
                                df[1].Emissions_Score_Normalized.den)
    IN  Rows([i \in 1 .. Len(df) |->
            df[i] @@
            [Composite_Score |-> Composite(df[i].Time_Score_Normalized,
                                           df[i].Cost_Score_Normalized,
                                           df[i].Emissions_Score_Normalized,
                                           scale)]])

\* RoutingEngine._score_combinations
score_combinations(combinations, priority, order_weight_kg) ==
    composite_scores(normalize_scores(raw_scores(combinations, priority, order_weight_kg)))

-----------------------------------------------------------------------------
(* routing_engine.py: ranker *)

\* RoutingEngine._get_output_columns (Route is the pair Origin, Destination)
OutputColumns ==
    {"Order_ID", "Origin", "Destination", "Distance_KM", "Total_Time_Hours",
     "Vehicle_ID", "Vehicle_Type", "Capacity_KG", "Fuel_Efficiency_KM_per_L",
     "CO2_Emissions_Kg_per_KM", "Time_Score", "Cost_Score", "Emissions_Score",
     "Composite_Score", "Weather_Impact", "Traffic_Delay_Minutes"}

\* the comparison of a descending sort (nlargest)
ScoreGreater(a, b, col) ==
    IF col = "Composite_Score"
    THEN BigCmp(a[col].num, b[col].num) > 0
    ELSE a[col] > b[col]

\* a's score in column col is strictly smaller than b's
ScoreLess(a, b, col) ==
    IF col = "Composite_Score"
    THEN BigCmp(a[col].num, b[col].num) < 0
    ELSE a[col] < b[col]

RECURSIVE InsertByScore(_, _, _)
InsertByScore(sorted, x, col) ==
    IF sorted = <<>> THEN <<x>>
    ELSE IF ScoreLess(x, Head(sorted), col) THEN <<x>> \o sorted
    ELSE <<Head(sorted)>> \o InsertByScore(Tail(sorted), x, col)

RECURSIVE SortByScore(_, _)
SortByScore(df, col) ==
    IF df = <<>> THEN <<>>
    ELSE InsertByScore(SortByScore(SubSeq(df, 1, Len(df) - 1), col), df[Len(df)], col)

\* a selection that returns one row too few
nsmallest_one_short(df, n, col) ==
    LET s == SortByScore(df, col)
    IN  SubSeq(s, 1, Max(0, Min(n - 1, Len(s))))

\* DataFrame.nsmallest(n, col): the n rows of smallest col, ascending,
\* equal scores in their original row order (keep='first')
nsmallest(df, n, col) ==
    LET s == SortByScore(df, col)
    IN  SubSeq(s, 1, Min(n, Len(s)))

\* [self._get_output_columns()].reset_index(drop=True)
Project(df) == Rows([i \in 1 .. Len(df) |-> [c \in OutputColumns |-> df[i][c]]])

\* RoutingEngine._rank_options
rank_options(scored_df, top_n) ==
    [fastest  |-> Project(nsmallest(scored_df, top_n, "Time_Score")),
     cheapest |-> Project(nsmallest(scored_df, top_n, "Cost_Score")),
     greenest |-> Project(nsmallest(scored_df, top_n, "Emissions_Score")),
     balanced |-> Project(nsmallest(scored_df, top_n, "Composite_Score"))]

-----------------------------------------------------------------------------
(* routing_engine.py: trade-off and recommendation engine *)

\* the analysis with the operands of cost_saved_inr the other way round
analyze_trade_offs_cost_reversed(ranked_options) ==
    LET fastest  == ranked_options.fastest[1]
        cheapest == ranked_options.cheapest[1]
        greenest == ranked_options.greenest[1]
    IN  [fastest_vs_cheapest |->
            [time_saved_hours    |-> cheapest.Total_Time_Hours - fastest.Total_Time_Hours,
             cost_difference_inr |-> fastest.Cost_Score - cheapest.Cost_Score,
             message |-> <<"Fastest route saves",
                           Abs(cheapest.Total_Time_Hours - fastest.Total_Time_Hours),
                           "hours but costs",
                           Abs(fastest.Cost_Score - cheapest.Cost_Score), "more">>],
         cheapest_vs_greenest |->
            [cost_saved_inr |-> cheapest.Cost_Score - greenest.Cost_Score,
             co2_saved_kg   |-> cheapest.Emissions_Score - greenest.Emissions_Score,
             message |-> <<"Greenest route reduces CO2 by",
                           Abs(cheapest.Emissions_Score - greenest.Emissions_Score),
                           "kg but costs",
                           Abs(greenest.Cost_Score - cheapest.Cost_Score), "more">>]]

\* RoutingEngine._analyze_trade_offs
analyze_trade_offs(ranked_options) ==
    LET fastest  == ranked_options.fastest[1]
        cheapest == ranked_options.cheapest[1]
        greenest == ranked_options.greenest[1]
    IN  [fastest_vs_cheapest |->
            [time_saved_hours    |-> cheapest.Total_Time_Hours - fastest.Total_Time_Hours,
             cost_difference_inr |-> fastest.Cost_Score - cheapest.Cost_Score,
             message |-> <<"Fastest route saves",
                           Abs(cheapest.Total_Time_Hours - fastest.Total_Time_Hours),
                           "hours but costs",
                           Abs(fastest.Cost_Score - cheapest.Cost_Score), "more">>],
         cheapest_vs_greenest |->
            [cost_saved_inr |-> greenest.Cost_Score - cheapest.Cost_Score,
             co2_saved_kg   |-> cheapest.Emissions_Score - greenest.Emissions_Score,
             message |-> <<"Greenest route reduces CO2 by",
                           Abs(cheapest.Emissions_Score - greenest.Emissions_Score),
                           "kg but costs",
                           Abs(greenest.Cost_Score - cheapest.Cost_Score), "more">>]]

\* a tolerance of a tenth in every branch
BranchToleranceOfATenth(priority) == 10

\* the tolerance, in percent, that the branch taken for a priority passes to
\* is_approximately_equal: the default 0.05 in the Express and the Economy
\* branch, 0.03 in the else branch that takes every other priority
BranchTolerance(priority) ==
    IF priority = "Express" \/ priority = "Economy" THEN 5 ELSE 3

\* the test with the larger value replaced by the smaller one as the base
is_approximately_equal_of_smaller(val1, val2, tolerance) ==
    IF val1 = BigZero /\ val2 = BigZero THEN TRUE
    ELSE IF val1 = BigZero \/ val2 = BigZero THEN FALSE
    ELSE BigCmp(BigMul(BigOf(100), BigAbsDiff(val1, val2)),
                BigMul(BigOf(tolerance), IF BigCmp(val1, val2) >= 0 THEN val2 ELSE val1)) <= 0

\* is_approximately_equal(val1, val2, tolerance): the values are big naturals
\* over a common denominator, the tolerance is in percent
is_approximately_equal(val1, val2, tolerance) ==
    IF val1 = BigZero /\ val2 = BigZero THEN TRUE
    ELSE IF val1 = BigZero \/ val2 = BigZero THEN FALSE
    ELSE BigCmp(BigMul(BigOf(100), BigAbsDiff(val1, val2)),
                BigMul(BigOf(tolerance), BigMax(val1, val2))) <= 0

\* Express without the tie-break: the fastest option whatever the others cost
ExpressAlwaysFastest(fastest, cheapest, greenest) ==
    [option |-> "fastest",
     rationale |-> <<"fastest delivery for Express", fastest.Total_Time_Hours, 0>>]

\* the primary recommendation for priority 'Express'
ExpressPrimary(fastest, cheapest, greenest) ==
    LET fastest_time  == fastest.Total_Time_Hours
        cheapest_time == cheapest.Total_Time_Hours
        greenest_time == greenest.Total_Time_Hours
    IN  IF is_approximately_equal(BigOf(fastest_time), BigOf(cheapest_time), BranchTolerance("Express"))
        THEN [option |-> "cheapest",
              rationale |-> <<"same time as fastest", cheapest_time,
                              Abs(fastest.Cost_Score - cheapest.Cost_Score)>>]
        ELSE IF is_approximately_equal(BigOf(fastest_time), BigOf(greenest_time), BranchTolerance("Express"))
        THEN [option |-> "greenest",
              rationale |-> <<"same time as fastest", greenest_time,
                              Abs(fastest.Emissions_Score - greenest.Emissions_Score)>>]
        ELSE [option |-> "fastest",
              rationale |-> <<"fastest delivery for Express", fastest_time, 0>>]

\* Economy without the tie-break: the cheapest option whatever the others offer
EconomyAlwaysCheapest(fastest, cheapest, greenest) ==
    [option |-> "cheapest",
     rationale |-> <<"lowest cost for Economy", cheapest.Cost_Score, 0>>]

\* the primary recommendation for priority 'Economy'
EconomyPrimary(fastest, cheapest, greenest) ==
    LET cheapest_cost == cheapest.Cost_Score
        greenest_cost == greenest.Cost_Score
        fastest_cost  == fastest.Cost_Score
    IN  IF is_approximately_equal(BigOf(cheapest_cost), BigOf(greenest_cost), BranchTolerance("Economy"))
        THEN [option |-> "greenest",
              rationale |-> <<"costs same as cheapest", greenest_cost,
                              Abs(cheapest.Emissions_Score - greenest.Emissions_Score)>>]
        ELSE IF is_approximately_equal(BigOf(cheapest_cost), BigOf(fastest_cost), BranchTolerance("Economy"))
        THEN [option |-> "fastest",
              rationale |-> <<"costs same as cheapest", fastest_cost,
                              Abs(cheapest.Total_Time_Hours - fastest.Total_Time_Hours)>>]
        ELSE [option |-> "cheapest",
              rationale |-> <<"lowest cost for Economy", cheapest_cost, 0>>]

\* Standard without the similarity checks: always the balanced option
StandardAlwaysBalanced(balanced, cheapest, greenest) ==
    [option |-> "balanced",
     rationale |-> <<"balanced trade-off", balanced.Total_Time_Hours,
                     balanced.Cost_Score>>]

\* the primary recommendation for every other priority ('Standard')
StandardPrimary(balanced, cheapest, greenest) ==
    LET balanced_score     == balanced.Composite_Score.num
        cheapest_composite == cheapest.Composite_Score.num
        greenest_composite == greenest.Composite_Score.num
    IN  IF is_approximately_equal(balanced_score, cheapest_composite, BranchTolerance("Standard"))
        THEN [option |-> "cheapest",
              rationale |-> <<"best overall balance for Standard", cheapest.Cost_Score, 0>>]
        ELSE IF is_approximately_equal(balanced_score, greenest_composite, BranchTolerance("Standard"))
        THEN [option |-> "greenest",
              rationale |-> <<"best overall balance for Standard",
                              greenest.Emissions_Score, 0>>]
        ELSE [option |-> "balanced",
              rationale |-> <<"balanced trade-off", balanced.Total_Time_Hours,
                              balanced.Cost_Score>>]

\* a dispatch on the priority that ignores its case
PrimaryForAnyCase(ranked_options, priority) ==
    LET fastest  == ranked_options.fastest[1]
        cheapest == ranked_options.cheapest[1]
        greenest == ranked_options.greenest[1]
        balanced == ranked_options.balanced[1]
    IN  IF priority \in {"Express", "express"} THEN ExpressPrimary(fastest, cheapest, greenest)
        ELSE IF priority \in {"Economy", "economy"} THEN EconomyPrimary(fastest, cheapest, greenest)
        ELSE StandardPrimary(balanced, cheapest, greenest)

\* the primary recommendation, by priority
PrimaryFor(ranked_options, priority) ==
    LET fastest  == ranked_options.fastest[1]
        cheapest == ranked_options.cheapest[1]
        greenest == ranked_options.greenest[1]
        balanced == ranked_options.balanced[1]
    IN  IF priority = "Express" THEN ExpressPrimary(fastest, cheapest, greenest)
        ELSE IF priority = "Economy" THEN EconomyPrimary(fastest, cheapest, greenest)
        ELSE StandardPrimary(balanced, cheapest, greenest)

\* an alternative chain that falls through to the next candidate when a gap
\* is below its threshold
AlternativeFallingThrough(ranked_options, primary_option) ==
    LET chosen   == ranked_options[primary_option][1]
        fastest  == ranked_options.fastest[1]
        cheapest == ranked_options.cheapest[1]
        greenest == ranked_options.greenest[1]
        co2_savings  == Abs(chosen.Emissions_Score - greenest.Emissions_Score)
        cost_savings == Abs(chosen.Cost_Score - cheapest.Cost_Score)
        time_savings == Abs(chosen.Total_Time_Hours - fastest.Total_Time_Hours)
    IN  IF primary_option # "greenest" /\ co2_savings > 100
        THEN [alternative |-> [option |-> "greenest",
                               rationale |-> <<"save CO2", co2_savings>>]]
        ELSE IF primary_option # "cheapest" /\ cost_savings > 5000
        THEN [alternative |-> [option |-> "cheapest",
                               rationale |-> <<"save cost", cost_savings>>]]
        ELSE IF primary_option # "fastest" /\ time_savings > 3000
        THEN [alternative |-> [option |-> "fastest",
                               rationale |-> <<"save time", time_savings>>]]
        ELSE <<>>

\* the alternative recommendation: a record with an 'alternative' entry, or
\* the empty record when none is suggested
AlternativeFor(ranked_options, primary_option) ==
    LET chosen   == ranked_options[primary_option][1]
        fastest  == ranked_options.fastest[1]
        cheapest == ranked_options.cheapest[1]
        greenest == ranked_options.greenest[1]
        co2_savings  == Abs(chosen.Emissions_Score - greenest.Emissions_Score)
        cost_savings == Abs(chosen.Cost_Score - cheapest.Cost_Score)
        time_savings == Abs(chosen.Total_Time_Hours - fastest.Total_Time_Hours)
    IN  IF primary_option # "greenest"
        THEN (IF co2_savings > 100        \* > 1 kg
              THEN [alternative |-> [option |-> "greenest",
                                     rationale |-> <<"save CO2", co2_savings>>]]
              ELSE <<>>)
        ELSE IF primary_option # "cheapest"
        THEN (IF cost_savings > 5000      \* > 50 INR
              THEN [alternative |-> [option |-> "cheapest",
                                     rationale |-> <<"save cost", cost_savings>>]]
              ELSE <<>>)
        ELSE IF primary_option # "fastest"
        THEN (IF time_savings > 3000      \* > 0.5 hours
              THEN [alternative |-> [option |-> "fastest",
                                     rationale |-> <<"save time", time_savings>>]]
              ELSE <<>>)
        ELSE <<>>

\* RoutingEngine._generate_recommendations
generate_recommendations(ranked_options, trade_offs, priority) ==
    LET primary == PrimaryFor(ranked_options, priority)
    IN  [primary |-> primary] @@ AlternativeFor(ranked_options, primary.option)

\* RoutingEngine._handle_no_routes
handle_no_routes(origin, destination) ==
    [error |-> "NO_ROUTES_FOUND",
     message |-> <<"No routes available for", origin, "to", destination>>,
     ranked_options |-> <<>>,
     trade_off_analysis |-> <<>>,
     recommendations |->
        [primary |-> [option |-> "none",
                      rationale |-> <<"Route not in current network">>]]]

\* RoutingEngine._handle_no_vehicles
handle_no_vehicles(order_weight_kg) ==
    [error |-> "NO_VEHICLES_AVAILABLE",
     message |-> <<"No vehicles with sufficient capacity", order_weight_kg,
                   "kg are currently available">>,
     ranked_options |-> <<>>,
     trade_off_analysis |-> <<>>,
     recommendations |->
        [primary |-> [option |-> "wait",
                      rationale |-> <<"Wait for vehicle availability or split shipment">>]]]

-----------------------------------------------------------------------------
(* routing_engine.py: RoutingEngine.optimize_route *)

\* the names of the steps of optimize_route, in order
all_steps ==
    <<"filter_routes", "filter_vehicles", "generate_combinations",
      "score_combinations", "rank_options", "analyze_trade_offs",
      "generate_recommendations">>

\* optimize_route from step 6 on: trade-offs, recommendations, the result
optimize_ranked(feasible_routes, feasible_vehicles, scored_combinations, ranked_options, priority) ==
    IF \E k \in {"fastest", "cheapest", "greenest"} : ranked_options[k] = <<>>
    \* .iloc[0] of an empty ranked list in _analyze_trade_offs
    THEN [ret   |-> [raised |-> "IndexError"],
          frame |-> [steps |-> SubSeq(all_steps, 1, 6),
                     feasible_routes |-> feasible_routes,
                     feasible_vehicles |-> feasible_vehicles,
                     scored_combinations |-> scored_combinations]]
    ELSE LET trade_offs == analyze_trade_offs(ranked_options)
         IN  [ret   |-> [ranked_options |-> ranked_options,
                         trade_off_analysis |-> trade_offs,
                         recommendations |->
                             generate_recommendations(ranked_options, trade_offs, priority),
                         total_combinations_evaluated |-> Len(scored_combinations)],
              frame |-> [steps |-> all_steps,
                         feasible_routes |-> feasible_routes,
                         feasible_vehicles |-> feasible_vehicles,
                         scored_combinations |-> scored_combinations]]

\* optimize_route from step 5 on: ranking of the scored combinations
optimize_scored(feasible_routes, feasible_vehicles, scored_combinations, priority, show_top_n) ==
    optimize_ranked(feasible_routes, feasible_vehicles, scored_combinations,
                    rank_options(scored_combinations, show_top_n), priority)

\* an optimize_route that scores and ranks first and looks at the feasible
\* sets only afterwards
optimize_feasible_checking_late(feasible_routes, feasible_vehicles, origin, destination, order_weight_kg, priority, show_top_n) ==
    IF feasible_routes = <<>> \/ feasible_vehicles = <<>>
    THEN [ret   |-> IF feasible_routes = <<>>
                    THEN handle_no_routes(origin, destination)
                    ELSE handle_no_vehicles(order_weight_kg),
          frame |-> [steps |-> SubSeq(all_steps, 1, 5),
                     feasible_routes |-> feasible_routes,
                     feasible_vehicles |-> feasible_vehicles,
                     scored_combinations |->
                         generate_combinations(feasible_routes, feasible_vehicles)]]
    ELSE optimize_scored(feasible_routes, feasible_vehicles,
                         score_combinations(
                             generate_combinations(feasible_routes, feasible_vehicles),
                             priority, order_weight_kg),
                         priority, show_top_n)

\* optimize_route after steps 1 and 2: the early returns, then steps 3 and 4
optimize_feasible(feasible_routes, feasible_vehicles, origin, destination, order_weight_kg, priority, show_top_n) ==
    IF feasible_routes = <<>>
    THEN [ret   |-> handle_no_routes(origin, destination),
          frame |-> [steps |-> SubSeq(all_steps, 1, 1),
                     feasible_routes |-> feasible_routes,
                     feasible_vehicles |-> <<>>,
                     scored_combinations |-> <<>>]]
    ELSE IF feasible_vehicles = <<>>
    THEN [ret   |-> handle_no_vehicles(order_weight_kg),
          frame |-> [steps |-> SubSeq(all_steps, 1, 2),
                     feasible_routes |-> feasible_routes,
                     feasible_vehicles |-> feasible_vehicles,
                     scored_combinations |-> <<>>]]
    ELSE optimize_scored(feasible_routes, feasible_vehicles,
                         score_combinations(
                             generate_combinations(feasible_routes, feasible_vehicles),
                             priority, order_weight_kg),
                         priority, show_top_n)

\* a route filter that narrows the engine's own table
routes_df_filtered_in_place(routes, origin, destination) == filter_feasible_routes(routes, origin, destination)

\* self.routes_df after _filter_feasible_routes: self.routes_df[mask].copy() builds a new frame
routes_df_after_filter(routes, origin, destination) == routes

\* a vehicle filter that narrows, extends and sorts the engine's own table
vehicles_df_filtered_in_place(vehicles, origin, order_weight_kg) == filter_feasible_vehicles(vehicles, origin, order_weight_kg)

\* self.vehicles_df after _filter_feasible_vehicles: the masks, the Location_Match column and
\* the sort are applied to the local made by self.vehicles_df.copy()
vehicles_df_after_filter(vehicles, origin, order_weight_kg) == vehicles

\* the engine's tables after the call: step 1 always runs, step 2 unless step 1 returned early;
\* steps 3 to 7 work on the two filtered locals and on combinations.copy()
engine_after_call(routes, vehicles, origin, destination, order_weight_kg) ==
    [routes_df   |-> routes_df_after_filter(routes, origin, destination),
     vehicles_df |-> IF filter_feasible_routes(routes, origin, destination) = <<>>
                     THEN vehicles
                     ELSE vehicles_df_after_filter(vehicles, origin, order_weight_kg)]

\* the call on tables routes, vehicles: what it returns (ret) and its locals
optimize_route(routes, vehicles, origin, destination, order_weight_kg, priority, show_top_n) ==
    optimize_feasible(filter_feasible_routes(routes, origin, destination),
                      filter_feasible_vehicles(vehicles, origin, order_weight_kg),
                      origin, destination, order_weight_kg, priority, show_top_n)

-----------------------------------------------------------------------------
(* The state machine *)

\* the arguments callers pass
Endpoints == {<<"MUMBAI", "delhi">>, <<"Pune", "delhi">>, <<"MUMBAI", "Goa">>}
Weights == {0, 1500, 8000}
Priorities == {"Express", "Standard", "Economy", "express"}

\* RoutingEngine.__init__ on the preprocessed tables
Init ==
    /\ \E rs \in SUBSET (1 .. NumRoutes) :
          routes_df = SubTable([i \in 1 .. Len(RawRoutes) |-> process_route(RawRoutes[i])],
                               rs, 1)
    /\ \E vs \in SUBSET (1 .. NumVehicles) :
          vehicles_df = SubTable(FleetRows, vs, 1)
    /\ pc = "idle"
    /\ request = None
    /\ frame = None
    /\ result = None
    /\ self_fuel_price = FUEL_PRICE_PER_LITER
    /\ cost_threads = None
    /\ calls = None
    /\ estimator = None

\* a caller runs optimize_route to completion
OptimizeRoute ==
    /\ pc = "idle"
    /\ \E endpoints \in Endpoints, order_weight_kg \in Weights,
          priority \in Priorities, show_top_n \in 0 .. MaxTopN :
          \E call \in {optimize_route(routes_df, vehicles_df, endpoints[1], endpoints[2],
                                      order_weight_kg, priority, show_top_n)} :
              /\ request' = [origin |-> endpoints[1], destination |-> endpoints[2],
                             order_weight_kg |-> order_weight_kg,
                             priority |-> priority, show_top_n |-> show_top_n]
              /\ frame' = call.frame
              /\ result' = call.ret
          /\ \E engine \in {engine_after_call(routes_df, vehicles_df, endpoints[1], endpoints[2],
                                             order_weight_kg)} :
              /\ routes_df' = engine.routes_df
              /\ vehicles_df' = engine.vehicles_df
    /\ pc' = "returned"
    /\ UNCHANGED <<self_fuel_price, cost_threads, calls, estimator>>

\* the caller has shown the result; the call's locals are gone
Display ==
    /\ pc = "returned"
    /\ pc' = "idle"
    /\ request' = None
    /\ frame' = None
    /\ result' = None
    /\ UNCHANGED <<routes_df, vehicles_df, self_fuel_price, cost_threads, calls, estimator>>

Next == OptimizeRoute \/ Display

Spec == Init /\ [][Next]_vars

-----------------------------------------------------------------------------
(* cost_model.py: one CostModel object called from several threads.  Each   *)
(* statement of sensitivity_analysis is one step; get_cost_breakdown reads  *)
(* self.fuel_price once, so a whole call of it is one step.                 *)

\* the variables the cost model does not touch
engine_vars == <<routes_df, vehicles_df, pc, request, frame, result, calls, estimator>>

CostThreads == {"t1", "t2"}

\* arguments of get_cost_breakdown (fuel efficiency in tenths of km/l)
BreakdownInputs ==
    [distance_km : {500, 1000}, vehicle_type : {"Medium_Truck"}, fuel_efficiency : {70, 80},
     traffic_delay_min : {0}, weather_impact : {"None", "Heavy_Rain"},
     order_weight_kg : {0}, toll_charges : {0, 400}]

\* arguments of sensitivity_analysis
AnalysisInputs ==
    [distance_km : {500}, vehicle_type : {"Medium_Truck"}, fuel_efficiency : {80},
     parameter : {"fuel_price", "labor_cost"}, variation_pct : {20, 50}]

\* a thread that has not called the cost model
NoCall ==
    [pc |-> "idle", op |-> "none", args |-> None, original_price |-> 0,
     baseline |-> 0, high_cost |-> 0, low_cost |-> 0, ret |-> None, analysed |-> FALSE]

\* CostModel.__init__
CostInit ==
    /\ self_fuel_price = FUEL_PRICE_PER_LITER
    /\ cost_threads = [t \in CostThreads |-> NoCall]
    /\ routes_df = <<>>
    /\ vehicles_df = <<>>
    /\ pc = "idle"
    /\ request = None
    /\ frame = None
    /\ result = None
    /\ calls = None
    /\ estimator = None

\* get_cost_breakdown on the price the object holds at the moment of the call
BreakdownAt(price, a) ==
    get_cost_breakdown(price, a.distance_km, a.vehicle_type, a.fuel_efficiency,
                       a.traffic_delay_min, a.weather_impact, a.order_weight_kg, a.toll_charges)

\* self.estimate_delivery_cost(distance_km, vehicle_type, fuel_efficiency): the other
\* parameters take their defaults
EstimateAt(price, a) ==
    estimate_delivery_cost(price, a.distance_km, a.vehicle_type, a.fuel_efficiency,
                           0, "None", 0, 0)

\* round((cost - baseline) / baseline * 100, 2), in hundredths of a percent
Impact(delta, baseline) ==
    LET a == Abs(delta) * 100
        r == (a % baseline) * 100
        v == RoundHalfEven((a \div baseline) * 100 + (r \div baseline), r % baseline, baseline)
    IN  IF delta < 0 THEN 0 - v ELSE v

\* thread t calls get_cost_breakdown
GetCostBreakdown(t) ==
    /\ cost_threads[t].pc = "idle"
    /\ \E a \in BreakdownInputs :
          cost_threads' = [cost_threads EXCEPT ![t] =
              [@ EXCEPT !.op = "get_cost_breakdown", !.args = a,
                        !.ret = BreakdownAt(self_fuel_price, a)]]
    /\ UNCHANGED self_fuel_price
    /\ UNCHANGED engine_vars

\* thread t enters sensitivity_analysis: baseline = self.estimate_delivery_cost(...), then
\* the test of parameter
SensitivityBaseline(t) ==
    /\ cost_threads[t].pc = "idle"
    /\ ~cost_threads[t].analysed
    /\ \E a \in AnalysisInputs :
          cost_threads' = [cost_threads EXCEPT ![t] =
              [pc |-> IF a.parameter = "fuel_price" THEN "original" ELSE "return",
               op |-> "sensitivity_analysis", args |-> a, original_price |-> 0,
               baseline |-> EstimateAt(self_fuel_price, a),
               high_cost |-> 0, low_cost |-> 0, ret |-> None, analysed |-> TRUE]]
    /\ UNCHANGED self_fuel_price
    /\ UNCHANGED engine_vars

\* original_price = self.fuel_price
SensitivityOriginal(t) ==
    /\ cost_threads[t].pc = "original"
    /\ cost_threads' = [cost_threads EXCEPT ![t] =
          [@ EXCEPT !.original_price = self_fuel_price, !.pc = "raise"]]
    /\ UNCHANGED self_fuel_price
    /\ UNCHANGED engine_vars

\* self.fuel_price = original_price * (1 + variation_pct / 100)
SensitivityRaise(t) ==
    /\ cost_threads[t].pc = "raise"
    /\ self_fuel_price' = (cost_threads[t].original_price
                              * (100 + cost_threads[t].args.variation_pct)) \div 100
    /\ cost_threads' = [cost_threads EXCEPT ![t].pc = "high"]
    /\ UNCHANGED engine_vars

\* high_cost = self.estimate_delivery_cost(...)
SensitivityHigh(t) ==
    /\ cost_threads[t].pc = "high"
    /\ cost_threads' = [cost_threads EXCEPT ![t] =
          [@ EXCEPT !.high_cost = EstimateAt(self_fuel_price, cost_threads[t].args), !.pc = "lower"]]
    /\ UNCHANGED self_fuel_price
    /\ UNCHANGED engine_vars

\* self.fuel_price = original_price * (1 - variation_pct / 100)
SensitivityLower(t) ==
    /\ cost_threads[t].pc = "lower"
    /\ self_fuel_price' = (cost_threads[t].original_price
                              * (100 - cost_threads[t].args.variation_pct)) \div 100
    /\ cost_threads' = [cost_threads EXCEPT ![t].pc = "low"]
    /\ UNCHANGED engine_vars

\* low_cost = self.estimate_delivery_cost(...)
SensitivityLow(t) ==
    /\ cost_threads[t].pc = "low"
    /\ cost_threads' = [cost_threads EXCEPT ![t] =
          [@ EXCEPT !.low_cost = EstimateAt(self_fuel_price, cost_threads[t].args), !.pc = "reset"]]
    /\ UNCHANGED self_fuel_price
    /\ UNCHANGED engine_vars

\* self.fuel_price = original_price
SensitivityReset(t) ==
    /\ cost_threads[t].pc = "reset"
    /\ self_fuel_price' = cost_threads[t].original_price
    /\ cost_threads' = [cost_threads EXCEPT ![t].pc = "return"]
    /\ UNCHANGED engine_vars

\* the dictionary sensitivity_analysis returns from its locals
SensitivityResult(th) ==
    [baseline_cost |-> th.baseline,
     high_scenario |-> th.high_cost,
     low_scenario  |-> th.low_cost,
     high_impact   |-> Impact(th.high_cost - th.baseline, th.baseline),
     low_impact    |-> Impact(th.baseline - th.low_cost, th.baseline)]

\* the return statement; high_cost and low_cost are bound only on the fuel_price branch
SensitivityReturn(t) ==
    /\ cost_threads[t].pc = "return"
    /\ cost_threads' = [cost_threads EXCEPT ![t] =
          [@ EXCEPT !.pc = "idle", !.original_price = 0,
                    !.baseline = 0, !.high_cost = 0, !.low_cost = 0,
                    !.ret = IF cost_threads[t].args.parameter = "fuel_price"
                            THEN SensitivityResult(cost_threads[t])
                            ELSE [raised |-> "UnboundLocalError"]]]
    /\ UNCHANGED self_fuel_price
    /\ UNCHANGED engine_vars

CostNext ==
    \E t \in CostThreads :
        \/ GetCostBreakdown(t)
        \/ SensitivityBaseline(t)
        \/ SensitivityOriginal(t)
        \/ SensitivityRaise(t)
        \/ SensitivityHigh(t)
        \/ SensitivityLower(t)
        \/ SensitivityLow(t)
        \/ SensitivityReset(t)
        \/ SensitivityReturn(t)

CostSpec == CostInit /\ [][CostNext]_vars

-----------------------------------------------------------------------------
(* routing_engine.py: several threads inside optimize_route of one engine.  *)
(* Steps 1 and 2 read the engine's tables and are one step each; steps 3 to *)
(* 7 work on the locals of the call (and on a CostModel made inside         *)
(* _score_combinations) and are one step together.                          *)

\* the variables the concurrent callers do not touch
caller_vars == <<pc, request, frame, result, self_fuel_price, cost_threads, estimator>>

Callers == {"c1", "c2"}

\* the arguments the concurrent callers pass
ConcurrentRequests ==
    [endpoints : Endpoints, order_weight_kg : {0, 8000},
     priority : {"Express", "Economy"}, show_top_n : {1, MaxTopN}]

\* the tables the shared engine was constructed on
EngineRoutes == SubTable([i \in 1 .. Len(RawRoutes) |-> process_route(RawRoutes[i])], 1 .. NumRoutes, 1)
EngineVehicles == SubTable(FleetRows, 1 .. NumVehicles, 1)

\* a caller outside optimize_route
NotCalling ==
    [pc |-> "idle", args |-> None, feasible_routes |-> <<>>, feasible_vehicles |-> <<>>,
     ret |-> None]

ConcInit ==
    /\ routes_df = EngineRoutes
    /\ vehicles_df = EngineVehicles
    /\ calls = [c \in Callers |-> NotCalling]
    /\ pc = "idle"
    /\ request = None
    /\ frame = None
    /\ result = None
    /\ self_fuel_price = FUEL_PRICE_PER_LITER
    /\ cost_threads = None
    /\ estimator = None

\* caller c enters optimize_route
EnterOptimizeRoute(c) ==
    /\ calls[c].pc = "idle"
    /\ \E a \in ConcurrentRequests :
          calls' = [calls EXCEPT ![c] = [NotCalling EXCEPT !.pc = "filter_routes", !.args = a]]
    /\ UNCHANGED <<routes_df, vehicles_df>>
    /\ UNCHANGED caller_vars

\* step 1 and its early return
StepFilterRoutes(c) ==
    /\ calls[c].pc = "filter_routes"
    /\ \E feasible \in {filter_feasible_routes(routes_df, calls[c].args.endpoints[1],
                                               calls[c].args.endpoints[2])} :
          calls' = [calls EXCEPT ![c] =
              IF feasible = <<>>
              THEN [@ EXCEPT !.pc = "return",
                             !.ret = handle_no_routes(calls[c].args.endpoints[1],
                                                      calls[c].args.endpoints[2])]
              ELSE [@ EXCEPT !.pc = "filter_vehicles", !.feasible_routes = feasible]]
    /\ routes_df' = routes_df_after_filter(routes_df, calls[c].args.endpoints[1],
                                           calls[c].args.endpoints[2])
    /\ UNCHANGED vehicles_df
    /\ UNCHANGED caller_vars

\* step 2 and its early return
StepFilterVehicles(c) ==
    /\ calls[c].pc = "filter_vehicles"
    /\ \E feasible \in {filter_feasible_vehicles(vehicles_df, calls[c].args.endpoints[1],
                                                 calls[c].args.order_weight_kg)} :
          calls' = [calls EXCEPT ![c] =
              IF feasible = <<>>
              THEN [@ EXCEPT !.pc = "return",
                             !.ret = handle_no_vehicles(calls[c].args.order_weight_kg)]
              ELSE [@ EXCEPT !.pc = "score", !.feasible_vehicles = feasible]]
    /\ vehicles_df' = vehicles_df_after_filter(vehicles_df, calls[c].args.endpoints[1],
                                               calls[c].args.order_weight_kg)
    /\ UNCHANGED routes_df
    /\ UNCHANGED caller_vars

\* steps 3 to 7 on the two filtered locals, up to the return value
StepScoreToResult(c) ==
    /\ calls[c].pc = "score"
    /\ calls' = [calls EXCEPT ![c] =
          [@ EXCEPT !.pc = "return",
                    !.ret = optimize_feasible(calls[c].feasible_routes,
                                              calls[c].feasible_vehicles,
                                              calls[c].args.endpoints[1],
                                              calls[c].args.endpoints[2],
                                              calls[c].args.order_weight_kg,
                                              calls[c].args.priority,
                                              calls[c].args.show_top_n).ret]]
    /\ UNCHANGED <<routes_df, vehicles_df>>
    /\ UNCHANGED caller_vars

\* the call returns to the caller; its locals are gone
LeaveOptimizeRoute(c) ==
    /\ calls[c].pc = "return"
    /\ calls' = [calls EXCEPT ![c] = NotCalling]
    /\ UNCHANGED <<routes_df, vehicles_df>>
    /\ UNCHANGED caller_vars

ConcNext ==
    \E c \in Callers :
        \/ EnterOptimizeRoute(c)
        \/ StepFilterRoutes(c)
        \/ StepFilterVehicles(c)
        \/ StepScoreToResult(c)
        \/ LeaveOptimizeRoute(c)

ConcSpec == ConcInit /\ [][ConcNext]_vars

-----------------------------------------------------------------------------
(* cost_model.py, sustainability_model.py, routing_engine.py: the estimator *)
(* functions called on their own, one call at a time, on Python floats.     *)
(* estimator holds the last call: its name, its arguments, what it returned *)
(* or raised, and the log records the call emitted.                         *)

other_vars == <<routes_df, vehicles_df, pc, request, frame, result, self_fuel_price, cost_threads, calls>>

\* sustainability_model.py: kg CO2 per litre of diesel, in hundredths
CO2_PER_LITER_DIESEL == 268

\* round of the quotient n/den of two integers, den # 0
RoundQuotient(n, den) ==
    IF den > 0 THEN RoundHalfEven(n \div den, n % den, den)
    ELSE RoundHalfEven((0 - n) \div (0 - den), (0 - n) % (0 - den), 0 - den)

\* SustainabilityModel.calculate_co2_emissions: km times thousandths of a
\* kg per km, rounded to hundredths of a kg
calculate_co2_emissions(distance_km, co2_rate) ==
    RoundQuotient(distance_km * co2_rate, 10)

\* SustainabilityModel.calculate_emissions_from_fuel, on the litres
\* distance / efficiency (efficiency in tenths of a km per litre)
calculate_emissions_from_fuel(distance_km, fuel_efficiency) ==
    RoundQuotient(10 * distance_km * CO2_PER_LITER_DIESEL, fuel_efficiency)

\* SustainabilityModel.get_emission_breakdown: the division by the fuel
\* efficiency and the division by the distance are unguarded
get_emission_breakdown(distance_km, co2_rate, fuel_efficiency) ==
    IF fuel_efficiency = 0 \/ distance_km = 0
    THEN [raised |-> "ZeroDivisionError"]
    ELSE LET direct == calculate_co2_emissions(distance_km, co2_rate)
             fuel   == calculate_emissions_from_fuel(distance_km, fuel_efficiency)
         IN  [direct_vehicle_emissions_kg |-> direct,
              fuel_based_emissions_kg     |-> fuel,
              total_emissions_kg          |-> RoundQuotient(direct + fuel, 2),
              emissions_per_km            |-> RoundQuotient((direct + fuel) * 50, distance_km),
              fuel_consumption_liters     |-> RoundQuotient(1000 * distance_km, fuel_efficiency)]

\* CostModel.get_cost_breakdown as a call: the division by the fuel
\* efficiency is unguarded, nothing else in the body can raise
call_get_cost_breakdown(price, a) ==
    IF a.fuel_efficiency = 0
    THEN [raised |-> "ZeroDivisionError"]
    ELSE get_cost_breakdown(price, a.distance_km, a.vehicle_type, a.fuel_efficiency,
                            a.traffic_delay_min, a.weather_impact, a.order_weight_kg,
                            a.toll_charges)

\* the keys of LABOR_COST_PER_HOUR and MAINTENANCE_COST_PER_KM, and of
\* WEATHER_COST_MULTIPLIER
RatedVehicleTypes == {"Express_Bike", "Small_Van", "Medium_Truck", "Large_Truck", "Refrigerated"}
RatedWeatherCodes == {"None", "Light_Rain", "Heavy_Rain", "Fog"}

\* the arguments the estimators are called with
EstimatorDistances == {0 - 100, 0, 500}
EstimatorEfficiencies == {0, 70, 80}
CostArguments == [distance_km : EstimatorDistances, vehicle_type : {"Medium_Truck", "Express_Bike", "Cargo_Drone"}, fuel_efficiency : EstimatorEfficiencies, traffic_delay_min : {0}, weather_impact : {"None", "Heavy_Rain", "Storm"}, order_weight_kg : {0}, toll_charges : {0}]
EmissionArguments == [distance_km : EstimatorDistances, co2_rate : {300, 450}, fuel_efficiency : EstimatorEfficiencies]

EstimatorInit ==
    /\ estimator = None
    /\ routes_df = <<>>
    /\ vehicles_df = <<>>
    /\ pc = "idle"
    /\ request = None
    /\ frame = None
    /\ result = None
    /\ self_fuel_price = FUEL_PRICE_PER_LITER
    /\ cost_threads = None
    /\ calls = None

\* cost_model.get_cost_breakdown(...): the body never calls the logger
CallGetCostBreakdown ==
    /\ \E a \in CostArguments :
          estimator' = [fn |-> "get_cost_breakdown", args |-> a,
                        ret |-> call_get_cost_breakdown(self_fuel_price, a),
                        log |-> <<>>]
    /\ UNCHANGED other_vars

\* sustainability_model.get_emission_breakdown(...)
CallGetEmissionBreakdown ==
    /\ \E a \in EmissionArguments :
          estimator' = [fn |-> "get_emission_breakdown", args |-> a,
                        ret |-> get_emission_breakdown(a.distance_km, a.co2_rate,
                                                       a.fuel_efficiency),
                        log |-> <<>>]
    /\ UNCHANGED other_vars

\* sum and product of a sequence of integers
RECURSIVE SumSeq(_)
SumSeq(s) == IF s = <<>> THEN 0 ELSE Head(s) + SumSeq(Tail(s))

\* least common multiple of a sequence of positive integers
RECURSIVE GCD(_, _)
GCD(a, b) == IF b = 0 THEN a ELSE GCD(b, a % b)
RECURSIVE LCMSeq(_)
LCMSeq(s) == IF s = <<>> THEN 1 ELSE (Head(s) * LCMSeq(Tail(s))) \div GCD(Head(s), LCMSeq(Tail(s)))

\* SustainabilityModel.calculate_carbon_offset_cost at 15 USD per ton and
\* 83 INR per USD; emissions in hundredths of a kg, tons in thousandths,
\* costs in cents and paise
calculate_carbon_offset_cost(emissions_kg) ==
    LET tons == RoundQuotient(emissions_kg, 100)
        inr  == RoundQuotient(15 * 83 * emissions_kg, 1000)
    IN  [emissions_tons  |-> tons,
         offset_cost_usd |-> RoundQuotient(15 * emissions_kg, 1000),
         offset_cost_inr |-> inr,
         interpretation  |-> <<"Carbon offset would cost", inr, tons, 15>>]

\* routes_df.nlargest(n, 'Emissions_Score'): the rows in descending order
\* of the column, the earlier row first among equals
RECURSIVE nlargest(_, _)
nlargest(n, table) ==
    IF n = 0 \/ table = <<>> THEN <<>>
    ELSE LET i == CHOOSE i \in DOMAIN table :
                      \A j \in DOMAIN table :
                          \/ table[j].Emissions_Score < table[i].Emissions_Score
                          \/ table[j].Emissions_Score = table[i].Emissions_Score /\ i <= j
         IN  <<table[i]>> \o nlargest(n - 1, [k \in 1 .. Len(table) - 1 |->
                                                IF k < i THEN table[k] ELSE table[k + 1]])

\* the columns of a non-empty table
Columns(table) == DOMAIN table[1]

\* the table the caller passed, as the call leaves it: the assignment
\* routes_df['Emissions_Per_KM'] = ... writes the column into that table
routes_df_after_report(table) ==
    IF {"Emissions_Score", "Distance_KM"} \subseteq Columns(table)
    THEN [i \in DOMAIN table |->
            [c \in Columns(table) \cup {"Emissions_Per_KM"} |->
                IF c = "Emissions_Per_KM"
                THEN [num |-> table[i].Emissions_Score, den |-> table[i].Distance_KM]
                ELSE table[i][c]]]
    ELSE table

\* mean of Emissions_Score / Distance_KM over the rows, rounded to four
\* places (kg per km in ten-thousandths)
average_emissions_per_km(table) ==
    LET L == LCMSeq([i \in DOMAIN table |-> table[i].Distance_KM])
        terms == [i \in DOMAIN table |->
                    table[i].Emissions_Score * (L \div table[i].Distance_KM)]
    IN  RoundQuotient(100 * SumSeq(terms), Len(table) * L)

\* SustainabilityModel.generate_sustainability_report: what it returns
generate_sustainability_report(table) ==
    IF "Emissions_Score" \notin Columns(table) THEN <<>>
    ELSE LET total_emissions == SumSeq([i \in DOMAIN table |-> table[i].Emissions_Score])
             top == nlargest(5, table)
         IN  [total_fleet_emissions_kg       |-> total_emissions,
              total_fleet_emissions_tons     |-> RoundQuotient(total_emissions, 1000),
              average_emissions_per_route_kg |-> RoundQuotient(total_emissions, Len(table)),
              average_emissions_per_km       |->
                  IF "Distance_KM" \in Columns(table)
                  THEN average_emissions_per_km(table) ELSE 0,
              top_5_emitters                 |->
                  [i \in DOMAIN top |->
                      [c \in {"Order_ID", "Route", "Emissions_Score"} |-> top[i][c]]],
              carbon_offset_cost             |-> calculate_carbon_offset_cost(total_emissions)]

\* the log records of the call
report_log(table) ==
    IF "Emissions_Score" \notin Columns(table)
    THEN <<[level |-> "WARNING", message |-> "Emissions_Score column not found"]>>
    ELSE <<>>

\* the tables the report is asked for: one to three scored deliveries, with
\* or without the distance or the score column
ReportRows == {[Order_ID |-> "ORD1", Route |-> "Mumbai-Delhi", Emissions_Score |-> 20822, Distance_KM |-> 500], [Order_ID |-> "ORD2", Route |-> "Pune-Delhi", Emissions_Score |-> 17072, Distance_KM |-> 500], [Order_ID |-> "ORD3", Route |-> "Mumbai-Goa", Emissions_Score |-> 4164, Distance_KM |-> 100]}
WithoutColumn(table, column) == [i \in DOMAIN table |-> [c \in DOMAIN table[i] \ {column} |-> table[i][c]]]
FullReportTables == {t \in UNION {[1 .. n -> ReportRows] : n \in 1 .. Cardinality(ReportRows)} : \A i, j \in DOMAIN t : i # j => t[i] # t[j]}
ReportTables == FullReportTables \cup {WithoutColumn(t, c) : t \in FullReportTables, c \in {"Distance_KM", "Emissions_Score"}}

\* sustainability_model.generate_sustainability_report(routes_df)
CallGenerateSustainabilityReport ==
    /\ \E table \in ReportTables :
          estimator' = [fn |-> "generate_sustainability_report",
                        args |-> [routes_df |-> table],
                        ret |-> generate_sustainability_report(table),
                        log |-> report_log(table),
                        routes_df |-> routes_df_after_report(table)]
    /\ UNCHANGED other_vars

\* round(diff / base * 100, 2) for base > 0, in hundredths of a percent
PercentageDifference(diff, base) ==
    LET q == (diff * 100) \div base
        r == ((diff * 100) % base) * 100
    IN  RoundHalfEven(q * 100 + (r \div base), r % base, base)

\* CostModel.compare_costs on two breakdowns (amounts in paise, the
\* percentage in hundredths of a percent)
compare_costs(option_a, option_b) ==
    LET diff == option_a.total_cost - option_b.total_cost
        keys == <<"fuel_cost", "labor_cost", "maintenance_cost", "toll_charges">>
        component_diffs == [k \in 1 .. Len(keys) |-> option_a[keys[k]] - option_b[keys[k]]]
        \* max(..., key=abs): the first of the largest
        biggest_driver == CHOOSE k \in 1 .. Len(keys) :
                              \A j \in 1 .. Len(keys) :
                                  \/ Abs(component_diffs[j]) < Abs(component_diffs[k])
                                  \/ Abs(component_diffs[j]) = Abs(component_diffs[k]) /\ k <= j
    IN  [cost_difference       |-> diff,
         percentage_difference |-> IF option_b.total_cost > 0
                                   THEN PercentageDifference(diff, option_b.total_cost)
                                   ELSE 0,
         cheaper_option        |-> IF diff > 0 THEN "A" ELSE "B",
         biggest_cost_driver   |-> keys[biggest_driver],
         driver_difference     |-> component_diffs[biggest_driver]]

\* SustainabilityModel.compare_emissions (emissions in hundredths of a kg,
\* the percentage in hundredths of a percent, the car distance in tenths of
\* a km at 0.15 kg per km)
compare_emissions(option_a_emissions, option_b_emissions) ==
    LET diff == option_a_emissions - option_b_emissions
    IN  [emission_difference_kg |-> diff,
         percentage_difference  |-> IF option_b_emissions > 0
                                    THEN PercentageDifference(diff, option_b_emissions)
                                    ELSE 0,
         greener_option         |-> IF diff > 0 THEN "A" ELSE "B",
         car_equivalent_km      |-> RoundQuotient(2 * diff, 3),
         interpretation         |-> <<"Choosing greener option saves",
                                      RoundQuotient(Abs(diff), 10),
                                      "kg CO2, km of car travel",
                                      RoundQuotient(Abs(diff), 15)>>]

\* the breakdowns and the emissions that are compared
ComparedBreakdowns == {get_cost_breakdown(FUEL_PRICE_PER_LITER, 500, vehicle_type, fuel_efficiency, 0, weather_impact, 0, 0) : vehicle_type \in {"Medium_Truck", "Express_Bike"}, fuel_efficiency \in {70, 80}, weather_impact \in {"None", "Heavy_Rain"}}
ComparedEmissions == {0, 4164, 17072, 20822}

\* cost_model.compare_costs(option_a, option_b)
CallCompareCosts ==
    /\ \E option_a \in ComparedBreakdowns, option_b \in ComparedBreakdowns :
          estimator' = [fn |-> "compare_costs",
                        args |-> [option_a |-> option_a, option_b |-> option_b],
                        ret |-> compare_costs(option_a, option_b),
                        log |-> <<>>]
    /\ UNCHANGED other_vars

\* sustainability_model.compare_emissions(option_a_emissions, option_b_emissions)
CallCompareEmissions ==
    /\ \E option_a_emissions \in ComparedEmissions, option_b_emissions \in ComparedEmissions :
          estimator' = [fn |-> "compare_emissions",
                        args |-> [option_a_emissions |-> option_a_emissions,
                                  option_b_emissions |-> option_b_emissions],
                        ret |-> compare_emissions(option_a_emissions, option_b_emissions),
                        log |-> <<>>]
    /\ UNCHANGED other_vars

\* the values the tolerance test is called with
ToleranceValues == {0, 19, 20, 95, 96, 97, 100}

\* is_approximately_equal(val1, val2) resp. (val1, val2, tolerance=0.03), as
\* the branch taken for the priority calls it
CallIsApproximatelyEqual ==
    /\ \E priority \in Priorities, val1 \in ToleranceValues, val2 \in ToleranceValues :
          estimator' = [fn |-> "is_approximately_equal",
                        args |-> [priority |-> priority, val1 |-> val1, val2 |-> val2,
                                  tolerance |-> BranchTolerance(priority)],
                        ret |-> is_approximately_equal(BigOf(val1), BigOf(val2),
                                                       BranchTolerance(priority)),
                        log |-> <<>>]
    /\ UNCHANGED other_vars

EstimatorNext ==
    \/ CallGetCostBreakdown
    \/ CallGetEmissionBreakdown
    \/ CallIsApproximatelyEqual
    \/ CallGenerateSustainabilityReport
    \/ CallCompareCosts
    \/ CallCompareEmissions

EstimatorSpec == EstimatorInit /\ [][EstimatorNext]_vars

-----------------------------------------------------------------------------
(* Vocabulary of the properties *)

Objectives == {"fastest", "cheapest", "greenest", "balanced"}

ScoreColumn(objective) ==
    CASE objective = "fastest"  -> "Time_Score"
      [] objective = "cheapest" -> "Cost_Score"
      [] objective = "greenest" -> "Emissions_Score"
      [] objective = "balanced" -> "Composite_Score"

NormalizedColumn(col) ==
    CASE col = "Time_Score"      -> "Time_Score_Normalized"
      [] col = "Cost_Score"      -> "Cost_Score_Normalized"
      [] col = "Emissions_Score" -> "Emissions_Score_Normalized"

Returned == pc = "returned"

\* the call in flight returned a success result
Succeeded == Returned /\ "total_combinations_evaluated" \in DOMAIN result

Scored == frame.scored_combinations

\* the #1 option of an objective in the returned result
Top(objective) == result.ranked_options[objective][1]

PrimaryOption == result.recommendations.primary.option

HasAlternative == "alternative" \in DOMAIN result.recommendations

\* two rows are the same route/vehicle pair
SamePair(a, b) == a.Order_ID = b.Order_ID /\ a.Vehicle_ID = b.Vehicle_ID

Restrict(row, cols) == [c \in cols |-> row[c]]

SetMin(S) == CHOOSE v \in S : \A u \in S : v <= u
SetMax(S) == CHOOSE v \in S : \A u \in S : v >= u

\* the tolerance test on integers, tolerance in percent
WithinTolerance(a, b, tolerance) ==
    \/ a = 0 /\ b = 0
    \/ a # 0 /\ b # 0 /\ 100 * Abs(a - b) <= tolerance * Max(a, b)

\* the tolerance test on big naturals
WithinToleranceBig(a, b, tolerance) ==
    \/ a = BigZero /\ b = BigZero
    \/ /\ a # BigZero
       /\ b # BigZero
       /\ BigCmp(BigMul(BigOf(100), BigAbsDiff(a, b)),
                 BigMul(BigOf(tolerance), BigMax(a, b))) <= 0

ScoreLeq(a, b, col) ==
    IF col = "Composite_Score"
    THEN BigCmp(a[col].num, b[col].num) <= 0
    ELSE a[col] <= b[col]

-----------------------------------------------------------------------------
(* C1 *)

SuccessShape(r) ==
    /\ DOMAIN r = {"ranked_options", "trade_off_analysis", "recommendations",
                   "total_combinations_evaluated"}
    /\ DOMAIN r.ranked_options = Objectives
    /\ DOMAIN r.trade_off_analysis = {"fastest_vs_cheapest", "cheapest_vs_greenest"}
    /\ "primary" \in DOMAIN r.recommendations
    /\ r.total_combinations_evaluated \in Nat

FailureShape(r) ==
    /\ "error" \in DOMAIN r
    /\ r.error \in {"NO_ROUTES_FOUND", "NO_VEHICLES_AVAILABLE"}
    /\ "message" \in DOMAIN r
    /\ "total_combinations_evaluated" \notin DOMAIN r
    /\ "primary" \in DOMAIN r.recommendations

\* C1: for every origin, destination, order weight >= 0, priority and
\* top_n >= 1, optimize_route returns, without raising, either a success
\* result or a structured failure whose error kind is NoRoutesFound or
\* NoVehiclesAvailable: exactly one of the two shapes.
C1_DiscriminatedResult ==
    (Returned /\ request.order_weight_kg >= 0 /\ request.show_top_n >= 1) =>
        /\ "raised" \notin DOMAIN result
        /\ SuccessShape(result) \/ FailureShape(result)
        /\ ~(SuccessShape(result) /\ FailureShape(result))

\* a call with top_n = 1 that had several combinations to rank succeeded
C1_Witness ==
    /\ Succeeded
    /\ request.show_top_n = 1
    /\ result.total_combinations_evaluated >= 2
    /\ SuccessShape(result)

-----------------------------------------------------------------------------
(* C2 *)

\* C2: in every success result every ranked combination pairs a route of
\* the table whose Origin and Destination equal the requested ones ignoring
\* case with a vehicle of the table whose Capacity_KG >= order weight and
\* whose Status is Available or In_Transit, never Maintenance.
C2_RankedAreFeasible ==
    Succeeded =>
        \A k \in Objectives : \A i \in 1 .. Len(result.ranked_options[k]) :
            LET row == result.ranked_options[k][i]
            IN  /\ Lower(row.Origin) = Lower(request.origin)
                /\ Lower(row.Destination) = Lower(request.destination)
                /\ row.Capacity_KG >= request.order_weight_kg
                /\ \E r \in 1 .. Len(routes_df) :
                      /\ routes_df[r].Order_ID = row.Order_ID
                      /\ routes_df[r].Origin = row.Origin
                      /\ routes_df[r].Destination = row.Destination
                /\ \E v \in 1 .. Len(vehicles_df) :
                      vehicles_df[v].Vehicle_ID = row.Vehicle_ID
                /\ \A v \in 1 .. Len(vehicles_df) :
                      vehicles_df[v].Vehicle_ID = row.Vehicle_ID =>
                          /\ vehicles_df[v].Status \in {"Available", "In_Transit"}
                          /\ vehicles_df[v].Status # "Maintenance"
                          /\ vehicles_df[v].Capacity_KG = row.Capacity_KG

\* a success although the tables hold a large enough vehicle in Maintenance,
\* a vehicle too small, and a route between other endpoints
C2_Witness ==
    /\ Succeeded
    /\ \E v \in 1 .. Len(vehicles_df) :
          /\ vehicles_df[v].Status = "Maintenance"
          /\ vehicles_df[v].Capacity_KG >= request.order_weight_kg
    /\ \E v \in 1 .. Len(vehicles_df) :
          vehicles_df[v].Capacity_KG < request.order_weight_kg
    /\ \E r \in 1 .. Len(routes_df) :
          Lower(routes_df[r].Origin) # Lower(request.origin)
    /\ \E i \in 1 .. Len(result.ranked_options.fastest) :
          result.ranked_options.fastest[i].Origin # request.origin

-----------------------------------------------------------------------------
(* C3 *)

\* C3: the scored combination set is the full cross product of the feasible
\* routes and the feasible vehicles: every pair occurs exactly once, no
\* other pair occurs, and total_combinations_evaluated is the product of
\* the two counts.
C3_FullCrossProduct ==
    Succeeded =>
        LET fr == frame.feasible_routes
            fv == frame.feasible_vehicles
        IN  /\ \A i \in 1 .. Len(fr) : \A j \in 1 .. Len(fv) :
                  Cardinality({k \in 1 .. Len(Scored) :
                                  /\ Restrict(Scored[k], DOMAIN fr[i]) = fr[i]
                                  /\ Restrict(Scored[k], DOMAIN fv[j]) = fv[j]}) = 1
            /\ \A k \in 1 .. Len(Scored) :
                  \E i \in 1 .. Len(fr) : \E j \in 1 .. Len(fv) :
                      /\ Restrict(Scored[k], DOMAIN fr[i]) = fr[i]
                      /\ Restrict(Scored[k], DOMAIN fv[j]) = fv[j]
            /\ Len(Scored) = Len(fr) * Len(fv)
            /\ result.total_combinations_evaluated = Len(fr) * Len(fv)

\* a success over at least two feasible routes and two feasible vehicles
C3_Witness ==
    /\ Succeeded
    /\ Len(frame.feasible_routes) >= 2
    /\ Len(frame.feasible_vehicles) >= 2
    /\ result.total_combinations_evaluated >= 4

-----------------------------------------------------------------------------
(* C4 *)

\* C4: for each objective and every top_n >= 1 the ranked list is sorted
\* ascending on the objective's score, has length <= min(top_n, number of
\* combinations), and every combination left out of it scores >= every
\* combination in it.
C4_RankedSortedTopN ==
    (Succeeded /\ request.show_top_n >= 1) =>
        \A k \in Objectives :
            LET list == result.ranked_options[k]
                col  == ScoreColumn(k)
            IN  /\ Len(list) <= Min(request.show_top_n, Len(Scored))
                /\ \A i \in 1 .. Len(list) :
                      \E j \in 1 .. Len(Scored) :
                          SamePair(Scored[j], list[i]) /\ Scored[j][col] = list[i][col]
                /\ \A i \in 1 .. (Len(list) - 1) : ScoreLeq(list[i], list[i + 1], col)
                /\ \A j \in 1 .. Len(Scored) :
                      (\A i \in 1 .. Len(list) : ~SamePair(Scored[j], list[i])) =>
                          \A i \in 1 .. Len(list) : ScoreLeq(list[i], Scored[j], col)

\* more combinations than top_n = 2, two cheapest of different cost listed,
\* and a dearer combination left out
C4_Witness ==
    /\ Succeeded
    /\ request.show_top_n = 2
    /\ Len(Scored) > 2
    /\ Len(result.ranked_options.cheapest) = 2
    /\ result.ranked_options.cheapest[1].Cost_Score
          < result.ranked_options.cheapest[2].Cost_Score
    /\ \E j \in 1 .. Len(Scored) :
          Scored[j].Cost_Score > result.ranked_options.cheapest[2].Cost_Score

-----------------------------------------------------------------------------
(* C5 *)

\* C5: for each raw score column, over the combinations of one call: if
\* max > min every normalised value is (value - min)/(max - min), lies in
\* [0,1], is 0 on a min-scoring row and 1 on a max-scoring row; if
\* max = min every normalised value of the column is 0.5.
C5_MinMaxNormalized ==
    Succeeded =>
        \A col \in {"Time_Score", "Cost_Score", "Emissions_Score"} :
            LET vals == {Scored[i][col] : i \in 1 .. Len(Scored)}
                mn   == SetMin(vals)
                mx   == SetMax(vals)
                N(i) == Scored[i][NormalizedColumn(col)]
            IN  IF mx > mn
                THEN /\ \A i \in 1 .. Len(Scored) :
                          /\ N(i).den > 0
                          /\ BigMul(BigOf(N(i).num), BigOf(mx - mn))
                                = BigMul(BigOf(Scored[i][col] - mn), BigOf(N(i).den))
                          /\ 0 <= N(i).num
                          /\ N(i).num <= N(i).den
                          /\ (Scored[i][col] = mn => N(i).num = 0)
                          /\ (Scored[i][col] = mx => N(i).num = N(i).den)
                ELSE \A i \in 1 .. Len(Scored) : 2 * N(i).num = N(i).den

\* one call with a column without spread (time) and a column with a value
\* strictly between its min and max (cost)
C5_Witness ==
    /\ Succeeded
    /\ \A i \in 1 .. Len(Scored) : Scored[i].Time_Score = Scored[1].Time_Score
    /\ \E i \in 1 .. Len(Scored) :
          /\ Scored[i].Cost_Score_Normalized.num > 0
          /\ Scored[i].Cost_Score_Normalized.num < Scored[i].Cost_Score_Normalized.den
    /\ 2 * Scored[1].Time_Score_Normalized.num = Scored[1].Time_Score_Normalized.den

-----------------------------------------------------------------------------
(* C6 *)

\* C6: for every scored combination Composite_Score = 0.33 x normalised
\* time + 0.33 x normalised cost + 0.34 x normalised emissions, whatever the
\* priority, and so lies in [0,1].
C6_CompositeFormula ==
    Succeeded =>
        \A i \in 1 .. Len(Scored) :
            LET t  == Scored[i].Time_Score_Normalized
                c  == Scored[i].Cost_Score_Normalized
                e  == Scored[i].Emissions_Score_Normalized
                s  == Scored[i].Composite_Score
                \* 100 * (0.33 t + 0.33 c + 0.34 e) over the denominator td*cd*ed
                lhs == BigAdd(BigAdd(
                          BigMul(BigOf(33 * t.num), BigMul(BigOf(c.den), BigOf(e.den))),
                          BigMul(BigOf(33 * c.num), BigMul(BigOf(t.den), BigOf(e.den)))),
                          BigMul(BigOf(34 * e.num), BigMul(BigOf(t.den), BigOf(c.den))))
                d   == BigMul(BigOf(t.den), BigMul(BigOf(c.den), BigOf(e.den)))
            IN  /\ s.den # BigZero
                \* s.num / s.den = lhs / (100 d)
                /\ BigMul(s.num, BigMul(BigOf(100), d)) = BigMul(lhs, s.den)
                /\ BigCmp(s.num, BigZero) >= 0
                /\ BigCmp(s.num, s.den) <= 0

\* a combination strictly inside the range on all three normalised scores
C6_Witness ==
    /\ Succeeded
    /\ \E i \in 1 .. Len(Scored) :
          /\ \A col \in {"Time_Score", "Cost_Score", "Emissions_Score"} :
                /\ Scored[i][NormalizedColumn(col)].num > 0
                /\ Scored[i][NormalizedColumn(col)].num
                      < Scored[i][NormalizedColumn(col)].den
          /\ BigCmp(Scored[i].Composite_Score.num, Scored[i].Composite_Score.den) < 0

-----------------------------------------------------------------------------
(* C7 *)

\* C7: with priority Express the primary is 'cheapest' if the #1 cheapest
\* option's time equals the #1 fastest option's time within 5%; otherwise
\* 'greenest' if the #1 greenest option's time does; otherwise 'fastest'.
\* In particular two combinations of identical time that differ in cost
\* give 'cheapest', not 'fastest'.
C7_ExpressPrimary ==
    (Succeeded /\ request.priority = "Express") =>
        /\ PrimaryOption =
              (IF WithinTolerance(Top("fastest").Total_Time_Hours,
                                  Top("cheapest").Total_Time_Hours, 5)
               THEN "cheapest"
               ELSE IF WithinTolerance(Top("fastest").Total_Time_Hours,
                                       Top("greenest").Total_Time_Hours, 5)
               THEN "greenest"
               ELSE "fastest")
        /\ (/\ Len(Scored) = 2
            /\ Scored[1].Time_Score = Scored[2].Time_Score
            /\ Scored[1].Cost_Score # Scored[2].Cost_Score)
              => PrimaryOption = "cheapest"

\* an Express call over two combinations of identical time and different
\* cost, where the #1 fastest is not the #1 cheapest
C7_Witness ==
    /\ Succeeded
    /\ request.priority = "Express"
    /\ Len(Scored) = 2
    /\ Scored[1].Time_Score = Scored[2].Time_Score
    /\ Scored[1].Cost_Score # Scored[2].Cost_Score
    /\ ~SamePair(Top("fastest"), Top("cheapest"))
    /\ PrimaryOption = "cheapest"

-----------------------------------------------------------------------------
(* C8 *)

\* C8: with priority Economy the primary is 'greenest' if the #1 greenest
\* option's cost equals the #1 cheapest option's cost within 5%; otherwise
\* 'fastest' if the #1 fastest option's cost does; otherwise 'cheapest'.
C8_EconomyPrimary ==
    (Succeeded /\ request.priority = "Economy") =>
        PrimaryOption =
            (IF WithinTolerance(Top("cheapest").Cost_Score,
                                Top("greenest").Cost_Score, 5)
             THEN "greenest"
             ELSE IF WithinTolerance(Top("cheapest").Cost_Score,
                                     Top("fastest").Cost_Score, 5)
             THEN "fastest"
             ELSE "cheapest")

\* an Economy call where the greenest option is too dear and the fastest
\* option, another combination than the cheapest, ties the cheapest on cost
C8_Witness ==
    /\ Succeeded
    /\ request.priority = "Economy"
    /\ ~WithinTolerance(Top("cheapest").Cost_Score, Top("greenest").Cost_Score, 5)
    /\ ~SamePair(Top("fastest"), Top("cheapest"))
    /\ PrimaryOption = "fastest"

-----------------------------------------------------------------------------
(* C9 *)

\* C9: with priority Standard the primary is 'cheapest' if the #1 balanced
\* option's composite score equals the #1 cheapest option's composite score
\* within 3%; otherwise 'greenest' if it equals the #1 greenest option's
\* within 3%; otherwise 'balanced'.
C9_StandardPrimary ==
    (Succeeded /\ request.priority = "Standard") =>
        PrimaryOption =
            (IF WithinToleranceBig(Top("balanced").Composite_Score.num,
                                   Top("cheapest").Composite_Score.num, 3)
             THEN "cheapest"
             ELSE IF WithinToleranceBig(Top("balanced").Composite_Score.num,
                                        Top("greenest").Composite_Score.num, 3)
             THEN "greenest"
             ELSE "balanced")

\* a Standard call where the balanced option is not the cheapest but is as
\* good as the greenest
C9_Witness ==
    /\ Succeeded
    /\ request.priority = "Standard"
    /\ ~SamePair(Top("balanced"), Top("cheapest"))
    /\ PrimaryOption = "greenest"

-----------------------------------------------------------------------------
(* C10 *)

\* C10: at most one alternative is returned, chosen by the chain: if the
\* primary is not 'greenest', the alternative is 'greenest' exactly when the
\* CO2 gap between the primary's #1 option and the #1 greenest is > 1 kg;
\* else if the primary is not 'cheapest', it is 'cheapest' exactly when the
\* cost gap is > 50; else if the primary is not 'fastest', it is 'fastest'
\* exactly when the time gap is > 0.5 hours.
C10_AlternativeChain ==
    Succeeded =>
        LET recs     == result.recommendations
            chosen   == Top(PrimaryOption)
            co2_gap  == Abs(chosen.Emissions_Score - Top("greenest").Emissions_Score)
            cost_gap == Abs(chosen.Cost_Score - Top("cheapest").Cost_Score)
            time_gap == Abs(chosen.Total_Time_Hours - Top("fastest").Total_Time_Hours)
            Offers(o) == HasAlternative /\ recs.alternative.option = o
        IN  /\ DOMAIN recs \subseteq {"primary", "alternative"}
            /\ IF PrimaryOption # "greenest"
               THEN /\ HasAlternative <=> co2_gap > 100
                    /\ HasAlternative => Offers("greenest")
               ELSE IF PrimaryOption # "cheapest"
               THEN /\ HasAlternative <=> cost_gap > 5000
                    /\ HasAlternative => Offers("cheapest")
               ELSE IF PrimaryOption # "fastest"
               THEN /\ HasAlternative <=> time_gap > 3000
                    /\ HasAlternative => Offers("fastest")
               ELSE ~HasAlternative

\* the primary is not 'greenest', its CO2 gap is within 1 kg, and no
\* alternative is offered although the cheapest option would save over 50
C10_Witness ==
    /\ Succeeded
    /\ PrimaryOption # "greenest"
    /\ Abs(Top(PrimaryOption).Emissions_Score - Top("greenest").Emissions_Score) <= 100
    /\ Abs(Top(PrimaryOption).Cost_Score - Top("cheapest").Cost_Score) > 5000
    /\ ~HasAlternative

-----------------------------------------------------------------------------
(* C11 *)

\* some row of the engine's route table matches the request, ignoring case
RouteMatches ==
    \E i \in 1 .. Len(routes_df) :
        /\ Lower(routes_df[i].Origin) = Lower(request.origin)
        /\ Lower(routes_df[i].Destination) = Lower(request.destination)

\* C11: when no route of the table matches the requested origin and
\* destination, the call returns the NoRoutesFound failure: a message naming
\* the requested origin and destination, empty ranked_options, and a primary
\* recommendation whose option is 'none'.
C11_NoRoutesFound ==
    (Returned /\ ~RouteMatches) =>
        /\ "error" \in DOMAIN result
        /\ result.error = "NO_ROUTES_FOUND"
        /\ \E i, j \in 1 .. Len(result.message) :
              /\ i < j
              /\ result.message[i] = request.origin
              /\ result.message[j] = request.destination
        /\ result.ranked_options = <<>>
        /\ result.recommendations.primary.option = "none"

\* the table has routes from the requested origin and vehicles that could
\* carry the order, but no route to the requested destination
C11_Witness ==
    /\ Returned
    /\ ~RouteMatches
    /\ \E i \in 1 .. Len(routes_df) : Lower(routes_df[i].Origin) = Lower(request.origin)
    /\ \E v \in 1 .. Len(vehicles_df) :
          /\ vehicles_df[v].Capacity_KG >= request.order_weight_kg
          /\ vehicles_df[v].Status = "Available"
    /\ result.error = "NO_ROUTES_FOUND"

-----------------------------------------------------------------------------
(* C12 *)

\* every vehicle that could carry the order is in Maintenance
CapableAllInMaintenance ==
    \A v \in 1 .. Len(vehicles_df) :
        vehicles_df[v].Capacity_KG >= request.order_weight_kg
            => vehicles_df[v].Status = "Maintenance"

\* C12 as stated: when every vehicle whose capacity is at least the order
\* weight is in Maintenance, the call returns the NoVehiclesAvailable failure
\* (primary recommendation 'wait'), whether or not a route matches.
C12_AsStated ==
    (Returned /\ CapableAllInMaintenance) =>
        /\ "error" \in DOMAIN result
        /\ result.error = "NO_VEHICLES_AVAILABLE"
        /\ result.recommendations.primary.option = "wait"

\* C12, amended: when a route matches the request and every vehicle whose
\* capacity is at least the order weight is in Maintenance, the call returns
\* the NoVehiclesAvailable failure, whose primary recommendation is 'wait'.
C12_NoVehiclesAvailable ==
    (/\ Returned
     /\ RouteMatches
     /\ \A v \in 1 .. Len(vehicles_df) :
           vehicles_df[v].Capacity_KG >= request.order_weight_kg
               => vehicles_df[v].Status = "Maintenance") =>
        /\ "error" \in DOMAIN result
        /\ result.error = "NO_VEHICLES_AVAILABLE"
        /\ result.ranked_options = <<>>
        /\ result.recommendations.primary.option = "wait"

\* a route matches, a vehicle in Maintenance could carry the order, and an
\* available vehicle is too small for it
C12_Witness ==
    /\ Returned
    /\ RouteMatches
    /\ \A v \in 1 .. Len(vehicles_df) :
          vehicles_df[v].Capacity_KG >= request.order_weight_kg
              => vehicles_df[v].Status = "Maintenance"
    /\ \E v \in 1 .. Len(vehicles_df) :
          /\ vehicles_df[v].Capacity_KG >= request.order_weight_kg
          /\ vehicles_df[v].Status = "Maintenance"
    /\ \E v \in 1 .. Len(vehicles_df) :
          /\ vehicles_df[v].Capacity_KG < request.order_weight_kg
          /\ vehicles_df[v].Status = "Available"
    /\ result.error = "NO_VEHICLES_AVAILABLE"

-----------------------------------------------------------------------------
(* C13 *)

\* the steps that follow the two feasibility filters
LaterSteps ==
    {"generate_combinations", "score_combinations", "rank_options",
     "analyze_trade_offs", "generate_recommendations"}

\* C13: in a call whose route filter or vehicle filter yields nothing, none
\* of combination generation, scoring, ranking, trade-off analysis and
\* recommendation selection runs before the call returns; only one of the two
\* structured error results is built.
C13_NoStepsAfterEmptyFilter ==
    (/\ Returned
     /\ \/ filter_feasible_routes(routes_df, request.origin, request.destination) = <<>>
        \/ filter_feasible_vehicles(vehicles_df, request.origin,
                                    request.order_weight_kg) = <<>>) =>
        /\ \A k \in 1 .. Len(frame.steps) : frame.steps[k] \notin LaterSteps
        /\ frame.scored_combinations = <<>>
        /\ FailureShape(result)
        /\ result.ranked_options = <<>>
        /\ result.trade_off_analysis = <<>>

\* a call that got past the route filter and stopped at the vehicle filter
C13_Witness ==
    /\ Returned
    /\ frame.feasible_routes # <<>>
    /\ Len(vehicles_df) > 0
    /\ filter_feasible_vehicles(vehicles_df, request.origin,
                                request.order_weight_kg) = <<>>
    /\ frame.steps = <<"filter_routes", "filter_vehicles">>
    /\ result.error = "NO_VEHICLES_AVAILABLE"

-----------------------------------------------------------------------------
(* C14 *)

\* the priorities in a cycle: every priority is reached from every other
OtherPriority(priority) ==
    CASE priority = "Express"  -> "Standard"
      [] priority = "Standard" -> "Economy"
      [] priority = "Economy"  -> "express"
      [] OTHER                 -> "Express"

-----------------------------------------------------------------------------
(* C15 *)

\* C15: for every scored combination Cost_Score is the cost estimator's
\* total_cost on the pair's own parameters: the route's distance, traffic
\* delay, weather code and toll charge, the vehicle's type and fuel
\* efficiency, and the order weight.
C15_CostScoreOnOwnParameters ==
    Succeeded =>
        \A i \in 1 .. Len(Scored) :
            Scored[i].Cost_Score =
                estimate_delivery_cost(FUEL_PRICE_PER_LITER,
                                       Scored[i].Distance_KM,
                                       Scored[i].Vehicle_Type,
                                       Scored[i].Fuel_Efficiency_KM_per_L,
                                       Scored[i].Traffic_Delay_Minutes,
                                       Scored[i].Weather_Impact,
                                       request.order_weight_kg,
                                       Scored[i].Toll_Charges_INR)


\* C16: for distance > 0 and fuel efficiency > 0 the returned breakdown adds up on its
\* two-decimal values: subtotal is the sum of the six components and total_cost is
\* subtotal + platform_fee + overhead
C16_BreakdownAddsUp ==
    \A t \in CostThreads :
        (/\ cost_threads[t].op = "get_cost_breakdown"
         /\ cost_threads[t].args.distance_km > 0
         /\ cost_threads[t].args.fuel_efficiency > 0)
        => LET b == cost_threads[t].ret
           IN  /\ b.subtotal = b.fuel_cost + b.labor_cost + b.maintenance_cost
                                  + b.toll_charges + b.insurance_cost + b.packaging_cost
               /\ b.total_cost = b.subtotal + b.platform_fee + b.overhead

\* a sensitivity_analysis of the thread is in progress
InAnalysis(th) == th.pc # "idle"

\* the fuel price a sensitivity_analysis with these arguments may compute with at position p
OwnPrice(p, a) ==
    CASE p = "high" -> (FUEL_PRICE_PER_LITER * (100 + a.variation_pct)) \div 100
      [] p = "low"  -> (FUEL_PRICE_PER_LITER * (100 - a.variation_pct)) \div 100
      [] OTHER      -> FUEL_PRICE_PER_LITER

\* C20: no call on the shared CostModel observes another call's in-flight change of the
\* fuel price: a get_cost_breakdown that runs while another thread's sensitivity_analysis
\* is in progress computes fuel_cost with the configured price, and inside a
\* sensitivity_analysis the baseline is computed with the configured price and the high and
\* low costs with that call's own raised and lowered price
C20_NoInFlightMutationObserved ==
    [][\A t \in CostThreads :
          /\ (/\ cost_threads[t].pc = "idle"
              /\ cost_threads'[t].pc = "idle"
              /\ cost_threads'[t] # cost_threads[t]
              /\ \E u \in CostThreads \ {t} : InAnalysis(cost_threads[u]))
             => cost_threads'[t].ret.fuel_cost
                    = BreakdownAt(FUEL_PRICE_PER_LITER, cost_threads'[t].args).fuel_cost
          /\ (cost_threads[t].pc = "idle" /\ InAnalysis(cost_threads'[t]))
             => cost_threads'[t].baseline
                    = EstimateAt(OwnPrice("baseline", cost_threads'[t].args), cost_threads'[t].args)
          /\ (cost_threads[t].pc = "high" /\ cost_threads'[t].pc = "lower")
             => cost_threads'[t].high_cost
                    = EstimateAt(OwnPrice("high", cost_threads[t].args), cost_threads[t].args)
          /\ (cost_threads[t].pc = "low" /\ cost_threads'[t].pc = "reset")
             => cost_threads'[t].low_cost
                    = EstimateAt(OwnPrice("low", cost_threads[t].args), cost_threads[t].args)
      ]_vars


\* the result of running the caller's call alone on the tables the engine was built on
AloneResult(a) ==
    optimize_route(EngineRoutes, EngineVehicles, a.endpoints[1], a.endpoints[2],
                   a.order_weight_kg, a.priority, a.show_top_n).ret

\* C19: however several optimize_route calls on one engine interleave, and whatever calls
\* ran before, the result a call is about to return equals the result of running that
\* call alone on the engine's tables with the same arguments
C19_ResultAsIfAlone ==
    \A c \in Callers :
        calls[c].pc = "return" => calls[c].ret = AloneResult(calls[c].args)

\* one caller is about to return a successful result while another caller, with other
\* arguments, is between its own filter steps and its scoring
C19_Witness ==
    \E c \in Callers, d \in Callers :
        /\ c # d
        /\ calls[c].pc = "return"
        /\ "total_combinations_evaluated" \in DOMAIN calls[c].ret
        /\ calls[d].pc = "score"
        /\ calls[d].args # calls[c].args


\* C18: no call changes the engine's route and vehicle tables: across every step of every
\* interleaving of calls the two tables keep their rows, their order, their columns and
\* their values
C18_TablesUnchanged == [][routes_df' = routes_df /\ vehicles_df' = vehicles_df]_vars

\* a call is about to return a success whose filters dropped rows of both tables and wrote
\* a Location_Match of 1 into the local vehicle table, and whose scorer added the score
\* columns, while the engine's tables still are the ones it was built on
C18_Witness ==
    \E c \in Callers :
        /\ calls[c].pc = "return"
        /\ "total_combinations_evaluated" \in DOMAIN calls[c].ret
        /\ Len(calls[c].feasible_vehicles) < Len(vehicles_df)
        /\ Len(calls[c].feasible_routes) < Len(routes_df)
        /\ \E i \in 1 .. Len(calls[c].feasible_vehicles) :
              calls[c].feasible_vehicles[i].Location_Match = 1
        /\ "Composite_Score" \in DOMAIN calls[c].ret.ranked_options["balanced"][1]
        /\ routes_df = EngineRoutes
        /\ vehicles_df = EngineVehicles
        /\ \A i \in 1 .. Len(vehicles_df) : "Location_Match" \notin DOMAIN vehicles_df[i]

\* C26: in every success result the four trade-off differences are not
\* negative: time_saved_hours (the cheapest option's time minus the fastest
\* option's), cost_difference_inr (the fastest's cost minus the cheapest's),
\* cost_saved_inr (the greenest's cost minus the cheapest's) and co2_saved_kg
\* (the cheapest's emissions minus the greenest's).
C26_TradeOffsNotNegative ==
    Succeeded =>
        /\ result.trade_off_analysis.fastest_vs_cheapest.time_saved_hours
              = Top("cheapest").Total_Time_Hours - Top("fastest").Total_Time_Hours
        /\ result.trade_off_analysis.fastest_vs_cheapest.time_saved_hours >= 0
        /\ result.trade_off_analysis.fastest_vs_cheapest.cost_difference_inr
              = Top("fastest").Cost_Score - Top("cheapest").Cost_Score
        /\ result.trade_off_analysis.fastest_vs_cheapest.cost_difference_inr >= 0
        /\ result.trade_off_analysis.cheapest_vs_greenest.cost_saved_inr
              = Top("greenest").Cost_Score - Top("cheapest").Cost_Score
        /\ result.trade_off_analysis.cheapest_vs_greenest.cost_saved_inr >= 0
        /\ result.trade_off_analysis.cheapest_vs_greenest.co2_saved_kg
              = Top("cheapest").Emissions_Score - Top("greenest").Emissions_Score
        /\ result.trade_off_analysis.cheapest_vs_greenest.co2_saved_kg >= 0

\* a success result in which all four differences are positive
C26_Witness ==
    /\ Succeeded
    /\ result.trade_off_analysis.fastest_vs_cheapest.time_saved_hours > 0
    /\ result.trade_off_analysis.fastest_vs_cheapest.cost_difference_inr > 0
    /\ result.trade_off_analysis.cheapest_vs_greenest.cost_saved_inr > 0
    /\ result.trade_off_analysis.cheapest_vs_greenest.co2_saved_kg > 0

\* C27: in every success result that holds an alternative, the alternative's
\* option differs from the primary's and is 'greenest' or 'cheapest';
\* 'cheapest' is offered only when the primary is 'greenest', and 'fastest'
\* is never returned as the alternative.
C27_AlternativeOptions ==
    (Succeeded /\ HasAlternative) =>
        /\ result.recommendations.alternative.option # PrimaryOption
        /\ result.recommendations.alternative.option \in {"greenest", "cheapest"}
        /\ result.recommendations.alternative.option = "cheapest" => PrimaryOption = "greenest"
        /\ result.recommendations.alternative.option # "fastest"

\* a greenest primary whose alternative is the cheapest option
C27_Witness ==
    /\ Succeeded /\ HasAlternative
    /\ PrimaryOption = "greenest"
    /\ result.recommendations.alternative.option = "cheapest"

\* C28: under 'Express' the primary option is one of 'fastest', 'cheapest',
\* 'greenest'; under 'Economy' one of 'cheapest', 'greenest', 'fastest';
\* every other priority ('Standard', an unknown value, 'express' in another
\* case) takes the Standard branch and gets one of 'balanced', 'cheapest',
\* 'greenest'; and no priority makes optimize_route raise: a call that
\* ranks at least one option per list returns a result whatever the priority.
C28_PrimaryByPriority ==
    Returned =>
        /\ "raised" \in DOMAIN result => request.show_top_n = 0
        /\ Succeeded =>
              PrimaryOption \in
                  (CASE request.priority = "Express" -> {"fastest", "cheapest", "greenest"}
                     [] request.priority = "Economy" -> {"cheapest", "greenest", "fastest"}
                     [] OTHER -> {"balanced", "cheapest", "greenest"})

\* a call with priority 'express' whose primary is the balanced option,
\* while the fastest option is a different combination
C28_Witness ==
    /\ Succeeded
    /\ request.priority = "express"
    /\ PrimaryOption = "balanced"
    /\ ~SamePair(Top("balanced"), Top("fastest"))

\* the smallest value of a column over all scored combinations
ColumnMin(column) == SetMin({Scored[i][column] : i \in 1 .. Len(Scored)})

\* C29: under 'Express' the #1 option of the primary's objective has a time
\* T with T - Tmin <= 0.05 * T, Tmin the smallest time over all combinations;
\* under 'Economy' it has a cost C with C - Cmin <= 0.05 * C.
C29_PrimaryNearOptimum ==
    Succeeded =>
        /\ request.priority = "Express" =>
              100 * (Top(PrimaryOption).Total_Time_Hours - ColumnMin("Total_Time_Hours"))
                  <= 5 * Top(PrimaryOption).Total_Time_Hours
        /\ request.priority = "Economy" =>
              100 * (Top(PrimaryOption).Cost_Score - ColumnMin("Cost_Score"))
                  <= 5 * Top(PrimaryOption).Cost_Score

\* an Express primary that is not the fastest option and is slower than it
C29_Witness ==
    /\ Succeeded
    /\ request.priority = "Express"
    /\ PrimaryOption # "fastest"
    /\ Top(PrimaryOption).Total_Time_Hours > ColumnMin("Total_Time_Hours")

-----------------------------------------------------------------------------
(* The estimator functions called on their own (EstimatorSpec) *)

\* the last estimator call was a call of fn
EstimatorCalled(fn) == "fn" \in DOMAIN estimator /\ estimator.fn = fn

\* the last call raised
EstimatorRaised == "raised" \in DOMAIN estimator.ret

\* C21: a call of the cost estimator or of the emission estimator with a
\* fuel efficiency of zero or a distance that is not positive reports
\* InvalidInput: it returns no breakdown and lets no division error escape.
C21_InvalidInputReported ==
    (/\ EstimatorCalled("get_cost_breakdown") \/ EstimatorCalled("get_emission_breakdown")
     /\ estimator.args.fuel_efficiency = 0 \/ estimator.args.distance_km <= 0)
        => estimator.ret = [raised |-> "InvalidInput"]


\* the last call was get_cost_breakdown with numeric arguments in range and
\* a vehicle type or a weather code that is in no rate table
ConfigurationGap ==
    /\ EstimatorCalled("get_cost_breakdown")
    /\ estimator.args.fuel_efficiency > 0 /\ estimator.args.distance_km > 0
    /\ \/ estimator.args.vehicle_type \notin RatedVehicleTypes
       \/ estimator.args.weather_impact \notin RatedWeatherCodes

\* the breakdown of the arguments a with the default rates in place of the
\* missing ones: 250 per hour and 5 per km are the rates of Medium_Truck,
\* 1.0 is the multiplier of None
WithDefaultRates(a) ==
    get_cost_breakdown(FUEL_PRICE_PER_LITER, a.distance_km,
                       IF a.vehicle_type \in RatedVehicleTypes THEN a.vehicle_type ELSE "Medium_Truck",
                       a.fuel_efficiency, a.traffic_delay_min,
                       IF a.weather_impact \in RatedWeatherCodes THEN a.weather_impact ELSE "None",
                       a.order_weight_kg, a.toll_charges)

\* the call returned the breakdown computed with the default rates
DefaultRatesUsed == estimator.ret = WithDefaultRates(estimator.args)

\* the call logged something or its result carries a flag
FallbackDetectable == estimator.log # <<>> \/ "fallback" \in DOMAIN estimator.ret

\* C22: get_cost_breakdown called with a vehicle type or weather code that
\* is in no rate table returns the breakdown computed with the default
\* rates (250 per hour, 5 per km, multiplier 1.0) and logs or flags the
\* use of the fallback.
C22_FallbackUsedAndDetectable ==
    ConfigurationGap => DefaultRatesUsed /\ FallbackDetectable


\* C23: the approximately-equal test is true when both values are zero,
\* false when exactly one is zero, and otherwise true exactly when
\* |a - b| / max(a, b) is at most the tolerance; the tolerance is 5 percent
\* in the Express and Economy branches and 3 percent in the Standard branch;
\* on non-negative values the test is symmetric and true for a = b.
C23_ApproximatelyEqual ==
    EstimatorCalled("is_approximately_equal") =>
        LET a == estimator.args.val1
            b == estimator.args.val2
            tolerance == estimator.args.tolerance
        IN  /\ tolerance = (IF estimator.args.priority \in {"Express", "Economy"} THEN 5 ELSE 3)
            /\ estimator.ret = IF a = 0 /\ b = 0 THEN TRUE
                               ELSE IF a = 0 \/ b = 0 THEN FALSE
                               ELSE 100 * Abs(a - b) <= tolerance * Max(a, b)
            /\ estimator.ret = is_approximately_equal(BigOf(b), BigOf(a), tolerance)
            /\ a = b => estimator.ret

\* two different non-zero values found equal under the Standard tolerance
\* with a ratio that the smaller base would reject
C23_Witness ==
    /\ EstimatorCalled("is_approximately_equal")
    /\ estimator.args.priority = "Standard"
    /\ estimator.args.val1 = 97 /\ estimator.args.val2 = 100
    /\ estimator.ret


\* C24: generate_sustainability_report leaves the table passed to it as it
\* was: no derived column is added to the caller's table.
C24_ReportLeavesTableAlone ==
    EstimatorCalled("generate_sustainability_report") =>
        estimator.routes_df = estimator.args.routes_df


-----------------------------------------------------------------------------
(* sensitivity_analysis on the documented parameters (CostSpec) *)

\* thread t has returned from a sensitivity_analysis
Analysed(t) ==
    /\ cost_threads[t].op = "sensitivity_analysis"
    /\ cost_threads[t].pc = "idle"
    /\ cost_threads[t].ret # None

\* C25: for each documented parameter ('fuel_price', 'labor_cost') and every
\* variation sensitivity_analysis returns baseline_cost, high_scenario,
\* low_scenario, high_impact and low_impact, the scenarios computed with only
\* the chosen parameter varied; it never ends with an error.
C25_DocumentedParametersAnalysed ==
    \A t \in CostThreads :
        (Analysed(t) /\ cost_threads[t].args.parameter \in {"fuel_price", "labor_cost"}) =>
            /\ DOMAIN cost_threads[t].ret = {"baseline_cost", "high_scenario", "low_scenario", "high_impact", "low_impact"}
            /\ cost_threads[t].ret.baseline_cost = EstimateAt(FUEL_PRICE_PER_LITER, cost_threads[t].args)
            /\ cost_threads[t].args.parameter = "fuel_price" =>
                  /\ cost_threads[t].ret.high_scenario = EstimateAt(OwnPrice("high", cost_threads[t].args), cost_threads[t].args)
                  /\ cost_threads[t].ret.low_scenario = EstimateAt(OwnPrice("low", cost_threads[t].args), cost_threads[t].args)


\* C30: compare_costs names 'A' the cheaper option only when A's total cost
\* is lower than B's, and compare_emissions names 'A' the greener option
\* only when A's emissions are lower than B's; otherwise they name 'B'.
C30_LabelNamesTheLower ==
    /\ EstimatorCalled("compare_costs") =>
          (estimator.ret.cheaper_option = "A"
              <=> estimator.args.option_a.total_cost < estimator.args.option_b.total_cost)
    /\ EstimatorCalled("compare_emissions") =>
          (estimator.ret.greener_option = "A"
              <=> estimator.args.option_a_emissions < estimator.args.option_b_emissions)

=============================================================================
